---- MODULE Spec2Model ----
(***************************************************************************)
(* Model of the MCP service of the PromptLock repository.                  *)
(*                                                                         *)
(* The repository holds two server programs, each with its own in-memory   *)
(* stores:                                                                 *)
(*   "modular": src/unnamed/part_002 (index.ts) mounting the routers of    *)
(*              src/unnamed/part_003 (connections), routes/context.ts and  *)
(*              routes/tools.ts over adapters/salesforce.ts;               *)
(*   "legacy":  src/unnamed/part_000 (single-file server with the          *)
(*              /api/mcp/:connectionId router) over the adapter of         *)
(*              src/unnamed/part_001.                                      *)
(* A behaviour is a run of one of the two programs: Init picks which.      *)
(* Requests arrive already authenticated (req.user is set).                *)
(***************************************************************************)
EXTENDS Integers, Sequences, FiniteSets, TLC

VARIABLES
    server,         \* which program runs: "modular" or "legacy"
    now,            \* Date.now(), a non-decreasing clock
    connections,    \* part_003: const connections = new Map() in insertion order
    mcpUsers,       \* part_000: const users = new Map(): email -> user record
    mcpConnections, \* part_000: const connections = new Map(): id -> record
    resp,           \* the request handled last and the reply it produced
    run,            \* what the handler of that request did on the way
    inst,           \* one SalesforceAdapter instance: credentials, isConnected,
                    \* objectsMetadata
    methodCalls,    \* the method calls made on that instance, in call order
    roundTrips,     \* the round trips of that instance to the backend, in
                    \* the order they were issued
    users,          \* auth.ts: const users = new Map(): email -> user record
    suspended,      \* the request handlers suspended at an await (of bcrypt in
                    \* auth.ts, of the adapter in part_000), in arrival order
    client,         \* MCPClient.ts: the fields of one MCPClient
    clientCalls,    \* the calls made on that client, in the order they began
    events,         \* what each of these calls made the client emit, in order
    microtasks,     \* the calls suspended at an await of their method whose
                    \* value is there already, in the order they will go on
    patterns,       \* part_001 330: the module-level array `patterns`, as
                    \* the ids of the DetectionPattern objects it holds
    engines,        \* the DetectionEngine instances, in the order constructed
    analyses,       \* the analyzePrompt calls waiting for the classifier at
                    \* `await this.semanticAnalysis(prompt.text)`, in call order
    engineCall      \* the engine method that ended last, and what it gave

vars == <<server, now, connections, mcpUsers, mcpConnections, resp, run,
          inst, methodCalls, roundTrips, users, suspended,
          client, clientCalls, events, microtasks,
          patterns, engines, analyses, engineCall>>

\* the adapter instance that is driven on its own, outside a request
adapterVars == <<inst, methodCalls, roundTrips>>

\* the state the routes under /connections, /tools, /context and /api do
\* not touch
otherVars == <<users, suspended, client, clientCalls, events, microtasks,
               patterns, engines, analyses, engineCall>>

clientVars == <<client, clientCalls, events, microtasks>>

engineVars == <<patterns, engines, analyses, engineCall>>

serverVars == <<server, now, connections, mcpUsers, mcpConnections, resp, run,
                users, suspended>>

----------------------------------------------------------------------------
(* Bounds of the model *)

MaxTime == 1
MaxConns == 1
MaxServices == 2
MaxCalls == 3

\* calls made on one MCPClient
MaxClientCalls == 2

\* length of a pattern list
MaxPatterns == 6
\* analyzePrompt calls waiting for the classifier at the same time
MaxAnalyses == 1

\* handlers of the /auth router suspended at an await at a time
MaxHashing == 2

\* handlers of POST /api/mcp/:connectionId suspended at an await at a time
MaxInFlight == 2

(* Inputs *)

Users == {"u1", "u2"}
ConnTypes == {"salesforce", "crm"}
ServiceNames == {"salesforce", "Salesforce", "crm"}
Credentials == {"secretA", "secretB"}
RandomSuffixes == {"k3j9x0q2a", "p7m1z8w4b"}

\* Credentials the Salesforce backend accepts at login (jsforce conn.login).
BackendAccepts == {"secretA"}

Undefined == "undefined"

----------------------------------------------------------------------------
(* JavaScript helpers *)

Digit(d) == SubSeq("0123456789", d + 1, d + 1)

RECURSIVE NumStr(_)
NumStr(n) == IF n < 10 THEN Digit(n) ELSE NumStr(n \div 10) \o Digit(n % 10)

ToLowerCase(s) == CASE s = "Salesforce" -> "salesforce"
                    [] OTHER -> s

ToUpperCase(s) == CASE s = "salesforce" -> "SALESFORCE"
                    [] s = "Salesforce" -> "SALESFORCE"
                    [] s = "crm" -> "CRM"
                    [] OTHER -> s

Min(a, b) == IF a < b THEN a ELSE b
Max(a, b) == IF a > b THEN a ELSE b

\* String.prototype.slice(0, end) for an integer end
Slice0(s, end) ==
    LET to == IF end < 0 THEN Max(Len(s) + end, 0) ELSE Min(end, Len(s))
    IN  SubSeq(s, 1, to)

EmptyMap == [x \in {} |-> 0]

\* Map.set on a Map that is never iterated: a function from keys to values
Put(m, key, value) == [k \in DOMAIN m \cup {key} |-> IF k = key THEN value ELSE m[k]]

\* Map that is iterated: a sequence of records with an id field, in insertion order
MapHas(m, id) == \E i \in 1..Len(m) : m[i].id = id

MapGet(m, id) == m[CHOOSE i \in 1..Len(m) : m[i].id = id]

MapSet(m, id, rec) ==
    IF MapHas(m, id)
    THEN [i \in 1..Len(m) |-> IF m[i].id = id THEN rec ELSE m[i]]
    ELSE Append(m, rec)

MapDelete(m, id) == SelectSeq(m, LAMBDA r : r.id # id)

MapKeys(m) == {m[i].id : i \in 1..Len(m)}

\* the list without its k-th element
Remove(list, k) == SubSeq(list, 1, k - 1) \o SubSeq(list, k + 1, Len(list))

\* new APIError(status, message): an Error carrying an HTTP status
APIError(status, message) == [status |-> status, message |-> message]

----------------------------------------------------------------------------
(* Modular server: the connection store routes (connections.ts) *)

ConnectionId(t, r) == "conn_" \o NumStr(t) \o "_" \o r

\* faulty variant: the stored record is serialised without dropping the credentials
ConnectionViewWithCredentials(conn) ==
    [id |-> conn.id, type |-> conn.type, credentials |-> conn.credentials]

\* what the list and get routes serialise of a stored connection
ConnectionView(conn) == [id |-> conn.id, type |-> conn.type]

\* res.json(...) / res.status(201).json(...)
Reply(route, user, target, status, body) ==
    [route |-> route, user |-> user, target |-> target, outcome |-> "json",
     status |-> status, body |-> body]

\* next(error): the handler hands a thrown error to the error middleware
NextError(route, user, target, error) ==
    [route |-> route, user |-> user, target |-> target, outcome |-> "next",
     status |-> error.status, body |-> [message |-> error.message]]

NoOptions == [hasMaxTokens |-> FALSE, maxTokens |-> 0, includeMetadata |-> "absent"]

NoMessage == [type |-> Undefined]

\* no request is being handled
Idle == [route |-> "none", user |-> Undefined, target |-> Undefined,
         outcome |-> "none", status |-> 0, body |-> [message |-> ""]]

\* a handler that reaches no adapter
NoRun == [ops |-> <<>>, sections |-> <<>>, assembled |-> "",
          services |-> <<>>, raised |-> <<>>, options |-> NoOptions,
          message |-> NoMessage, threw |-> FALSE, calls |-> <<>>,
          metadata |-> EmptyMap]

ListConnections(userId) ==
    /\ server = "modular"
    /\ resp = Idle
    /\ LET owned == SelectSeq(connections, LAMBDA conn : conn.userId = userId)
           userConnections == [i \in 1..Len(owned) |-> ConnectionView(owned[i])]
       IN  resp' = Reply("GET /connections", userId, Undefined, 200,
                         [success |-> TRUE, data |-> userConnections])
    /\ run' = NoRun
    /\ UNCHANGED <<server, now, connections, mcpUsers, mcpConnections>>
    /\ UNCHANGED <<adapterVars, otherVars>>

\* the store has room for a record under the id: the id is stored already,
\* or fewer than n records are
CanStore(connectionId, n) ==
    MapHas(connections, connectionId) \/ Len(connections) < n

AddConnection(userId, type, credentials, rnd) ==
    /\ server = "modular"
    /\ resp = Idle
    /\ LET connectionId == ConnectionId(now, rnd)
       IN  /\ connections' = MapSet(connections, connectionId,
                                    [id |-> connectionId, type |-> type,
                                     credentials |-> credentials, userId |-> userId])
           /\ resp' = Reply("POST /connections", userId, connectionId, 201,
                            [success |-> TRUE,
                             data |-> [connectionId |-> connectionId, type |-> type]])
    /\ run' = NoRun
    /\ UNCHANGED <<server, now, mcpUsers, mcpConnections>>
    /\ UNCHANGED <<adapterVars, otherVars>>

GetConnection(userId, connectionId) ==
    /\ server = "modular"
    /\ resp = Idle
    /\ resp' =
         IF ~MapHas(connections, connectionId)
         THEN NextError("GET /connections/:id", userId, connectionId,
                        APIError(404, "Connection not found"))
         ELSE IF MapGet(connections, connectionId).userId # userId
         THEN NextError("GET /connections/:id", userId, connectionId,
                        APIError(403, "Access denied"))
         ELSE Reply("GET /connections/:id", userId, connectionId, 200,
                    [success |-> TRUE,
                     data |-> ConnectionView(MapGet(connections, connectionId))])
    /\ run' = NoRun
    /\ UNCHANGED <<server, now, connections, mcpUsers, mcpConnections>>
    /\ UNCHANGED <<adapterVars, otherVars>>

\* faulty variant: the record is removed before the owner is compared
DeleteConnectionUnchecked(userId, connectionId) ==
    /\ server = "modular"
    /\ resp = Idle
    /\ IF ~MapHas(connections, connectionId)
       THEN /\ resp' = NextError("DELETE /connections/:id", userId, connectionId,
                                 APIError(404, "Connection not found"))
            /\ UNCHANGED connections
       ELSE /\ connections' = MapDelete(connections, connectionId)
            /\ resp' = IF MapGet(connections, connectionId).userId # userId
                       THEN NextError("DELETE /connections/:id", userId, connectionId,
                                      APIError(403, "Access denied"))
                       ELSE Reply("DELETE /connections/:id", userId, connectionId, 200,
                                  [success |-> TRUE,
                                   message |-> "Connection deleted successfully"])
    /\ run' = NoRun
    /\ UNCHANGED <<server, now, mcpUsers, mcpConnections>>
    /\ UNCHANGED <<adapterVars, otherVars>>

\* faulty variant: the delete removes every connection of the owner
DeleteConnectionsOfOwner(userId, connectionId) ==
    /\ server = "modular"
    /\ resp = Idle
    /\ IF ~MapHas(connections, connectionId)
       THEN /\ resp' = NextError("DELETE /connections/:id", userId, connectionId,
                                 APIError(404, "Connection not found"))
            /\ UNCHANGED connections
       ELSE IF MapGet(connections, connectionId).userId # userId
       THEN /\ resp' = NextError("DELETE /connections/:id", userId, connectionId,
                                 APIError(403, "Access denied"))
            /\ UNCHANGED connections
       ELSE /\ connections' = SelectSeq(connections, LAMBDA r : r.userId # userId)
            /\ resp' = Reply("DELETE /connections/:id", userId, connectionId, 200,
                             [success |-> TRUE,
                              message |-> "Connection deleted successfully"])
    /\ run' = NoRun
    /\ UNCHANGED <<server, now, mcpUsers, mcpConnections>>
    /\ UNCHANGED <<adapterVars, otherVars>>

DeleteConnection(userId, connectionId) ==
    /\ server = "modular"
    /\ resp = Idle
    /\ IF ~MapHas(connections, connectionId)
       THEN /\ resp' = NextError("DELETE /connections/:id", userId, connectionId,
                                 APIError(404, "Connection not found"))
            /\ UNCHANGED connections
       ELSE IF MapGet(connections, connectionId).userId # userId
       THEN /\ resp' = NextError("DELETE /connections/:id", userId, connectionId,
                                 APIError(403, "Access denied"))
            /\ UNCHANGED connections
       ELSE /\ connections' = MapDelete(connections, connectionId)
            /\ resp' = Reply("DELETE /connections/:id", userId, connectionId, 200,
                             [success |-> TRUE,
                              message |-> "Connection deleted successfully"])
    /\ run' = NoRun
    /\ UNCHANGED <<server, now, mcpUsers, mcpConnections>>
    /\ UNCHANGED <<adapterVars, otherVars>>

\* the connection ids a request may name: every id the route can generate
AllConnectionIds == {ConnectionId(t, r) : t \in 0..MaxTime, r \in RandomSuffixes}

----------------------------------------------------------------------------
(* The Salesforce backend (jsforce), an external collaborator.  A request  *)
(* finds it in one condition b: whether its data calls succeed, and the    *)
(* object names they return.  Login succeeds for accepted credentials.     *)

BackendBehaviours ==
    { [ok |-> TRUE, payload |-> <<"Account">>],
      [ok |-> TRUE, payload |-> <<>>],
      [ok |-> FALSE, payload |-> <<>>] }

\* an object type as conn.describeGlobal() lists it
SObject(name) ==
    [name |-> name, label |-> name, custom |-> FALSE, createable |-> TRUE,
     updateable |-> TRUE, deletable |-> TRUE, queryable |-> TRUE]

\* what conn.describeGlobal() resolves to
DescribeGlobal(b) ==
    [encoding |-> "UTF-8", maxBatchSize |-> 200,
     sobjects |-> [i \in 1..Len(b.payload) |-> SObject(b.payload[i])]]

\* what conn.query(soql) resolves to: one record per object name
Query(b) ==
    [totalSize |-> Len(b.payload),
     records |-> [i \in 1..Len(b.payload) |-> [Name |-> b.payload[i]]]]

\* what conn.sobject(objectType).retrieve(recordId) resolves to
Retrieve(objectType, recordId) == [Id |-> recordId, type |-> objectType]

\* what conn.describe(objectType) resolves to
Describe(objectType) == [name |-> objectType, fields |-> <<>>]

----------------------------------------------------------------------------
(* JSON.stringify(value, null, 2).  The strings of the model hold no       *)
(* character that JSON escapes.                                            *)

Indent(depth) == SubSeq("                ", 1, 2 * depth)

JsonString(s) == "\"" \o s \o "\""

JsonBoolean(v) == IF v THEN "true" ELSE "false"

\* the rendered items, one per line behind pad, separated by commas
RECURSIVE JoinLines(_, _)
JoinLines(items, pad) ==
    IF Len(items) = 1 THEN pad \o items[1]
    ELSE pad \o items[1] \o ",\n" \o JoinLines(Tail(items), pad)

\* an array of rendered items that itself sits at the given depth
JsonArray(items, depth) ==
    IF Len(items) = 0 THEN "[]"
    ELSE "[\n" \o JoinLines(items, Indent(depth + 1)) \o "\n" \o Indent(depth) \o "]"

\* an object of <<key, rendered value>> members that sits at the given depth
JsonObject(members, depth) ==
    IF Len(members) = 0 THEN "{}"
    ELSE "{\n"
         \o JoinLines([i \in 1..Len(members) |->
                          JsonString(members[i][1]) \o ": " \o members[i][2]],
                      Indent(depth + 1))
         \o "\n" \o Indent(depth) \o "}"

\* JSON.stringify(names, null, 2) of an array of strings
JsonStringify(payload) ==
    JsonArray([i \in 1..Len(payload) |-> JsonString(payload[i])], 0)

----------------------------------------------------------------------------
(* Modular server: adapters/salesforce.ts *)

ToolNames == <<"query_records", "get_record", "describe_object">>

SALESFORCE_RESOURCES ==
    << [name |-> "schema", url |-> "schema"],
       [name |-> "recent_items", url |-> "recent_items"] >>

\* new SalesforceAdapter(credentials?): connection is the id of the stored
\* connection the credentials were taken from, Undefined when there is none
NewSalesforceAdapter(credentials, connection) ==
    [credentials |-> credentials, connection |-> connection, isConnected |-> FALSE,
     objectsMetadata |-> EmptyMap]

\* the outcome of an adapter method: a value or a thrown error, the adapter
\* afterwards, and the backend calls it made
Returned(adapter, value, calls) ==
    [threw |-> FALSE, error |-> APIError(0, ""), value |-> value,
     adapter |-> adapter, calls |-> calls]

Thrown(adapter, error, calls) ==
    [threw |-> TRUE, error |-> error, value |-> "",
     adapter |-> adapter, calls |-> calls]

EnsureConnection(adapter) ==
    IF adapter.isConnected THEN Returned(adapter, "", <<>>)
    ELSE IF adapter.credentials = Undefined
    THEN Thrown(adapter, APIError(400, "Salesforce credentials not provided"), <<>>)
    ELSE IF adapter.credentials \in BackendAccepts
    THEN Returned([adapter EXCEPT !.isConnected = TRUE], "", <<"login">>)
    ELSE Thrown(adapter, APIError(500, "Failed to authenticate with Salesforce"),
                <<"login">>)

\* faulty variant: the tool table is handed out only once a session exists
ListToolsOfSession(adapter) == IF adapter.isConnected THEN ToolNames ELSE <<>>

ListTools(adapter) == ToolNames

ListResources(adapter) == SALESFORCE_RESOURCES

\* getGlobalObjects(): the listed object types, four fields of each
GetGlobalObjects(result) ==
    [i \in 1..Len(result.sobjects) |->
        [name |-> result.sobjects[i].name, label |-> result.sobjects[i].label,
         custom |-> result.sobjects[i].custom,
         queryable |-> result.sobjects[i].queryable]]

\* JSON.stringify(objects, null, 2) of what getGlobalObjects returns
StringifyObjects(objects) ==
    JsonArray([i \in 1..Len(objects) |->
                  JsonObject(<< <<"name", JsonString(objects[i].name)>>,
                                <<"label", JsonString(objects[i].label)>>,
                                <<"custom", JsonBoolean(objects[i].custom)>>,
                                <<"queryable", JsonBoolean(objects[i].queryable)>> >>,
                             1)],
              0)

ReadResource(adapter, resourceUrl, b) ==
    LET c == EnsureConnection(adapter)
    IN  IF c.threw THEN c
        ELSE IF resourceUrl = "schema"
        THEN IF b.ok
             THEN Returned(c.adapter,
                           StringifyObjects(GetGlobalObjects(DescribeGlobal(b))),
                           c.calls \o <<"describeGlobal">>)
             ELSE Thrown(c.adapter,
                         APIError(500, "Failed to retrieve Salesforce objects"),
                         c.calls \o <<"describeGlobal">>)
        ELSE IF resourceUrl = "recent_items"
        THEN IF b.ok
             THEN Returned(c.adapter, JsonStringify(b.payload),
                           c.calls \o <<"recent">>)
             ELSE Thrown(c.adapter,
                         APIError(500, "Failed to read Salesforce resource"),
                         c.calls \o <<"recent">>)
        ELSE Thrown(c.adapter, APIError(404, "Unknown resource: " \o resourceUrl),
                    c.calls)

\* the keys the tools' input schemas (z.object(...)) require, in schema order
RequiredKeys(toolName) ==
    CASE toolName = "query_records" -> <<"soql">>
      [] toolName = "get_record" -> <<"objectType", "recordId">>
      [] toolName = "describe_object" -> <<"objectType">>
      [] OTHER -> <<>>

\* tool.inputSchema.parse(parameters) does not throw: the required keys are
\* present
ValidParameters(toolName, parameters) ==
    /\ \E i \in 1..Len(ToolNames) : ToolNames[i] = toolName
    /\ \A i \in 1..Len(RequiredKeys(toolName)) :
          RequiredKeys(toolName)[i] \in DOMAIN parameters

\* ZodError.message: the issues, one per missing key, as JSON
ZodErrorMessage(toolName, parameters) ==
    LET missing == SelectSeq(RequiredKeys(toolName),
                             LAMBDA key : key \notin DOMAIN parameters)
    IN  JsonArray([i \in 1..Len(missing) |->
                      JsonObject(<< <<"code", JsonString("invalid_type")>>,
                                    <<"expected", JsonString("string")>>,
                                    <<"received", JsonString("undefined")>>,
                                    <<"path", JsonArray(<<JsonString(missing[i])>>, 2)>>,
                                    <<"message", JsonString("Required")>> >>,
                                 1)],
                  0)

InvalidParameters(toolName, parameters) ==
    APIError(400, "Invalid parameters: " \o ZodErrorMessage(toolName, parameters))

ToolBackendCall(toolName) ==
    CASE toolName = "query_records" -> "query"
      [] toolName = "get_record" -> "retrieve"
      [] OTHER -> "describe"

ToolFailure(toolName) ==
    CASE toolName = "query_records" -> "Failed to execute query: backend error"
      [] toolName = "get_record" -> "Failed to retrieve record: backend error"
      [] OTHER -> "Failed to describe object: backend error"

\* message.<field> / parameters.<field>, undefined when it is not carried
Field(message, f) == IF f \in DOMAIN message THEN message[f] ELSE Undefined

\* what queryRecords, getRecord and describeObject return once their data
\* call succeeded
ToolResult(toolName, parameters, b) ==
    CASE toolName = "query_records" -> Query(b)
      [] toolName = "get_record" ->
            Retrieve(Field(parameters, "objectType"), Field(parameters, "recordId"))
      [] OTHER -> Describe(Field(parameters, "objectType"))

\* describeObject finds the object type in this.objectsMetadata
Cached(adapter, toolName, parameters) ==
    /\ toolName = "describe_object"
    /\ Field(parameters, "objectType") \in DOMAIN adapter.objectsMetadata

\* this.objectsMetadata.set(objectType, metadata) after a describe
Remember(adapter, toolName, parameters, metadata) ==
    IF toolName = "describe_object"
    THEN [adapter EXCEPT !.objectsMetadata =
                             Put(@, Field(parameters, "objectType"), metadata)]
    ELSE adapter

CallTool(adapter, toolName, parameters, b) ==
    LET c == EnsureConnection(adapter)
    IN  IF c.threw THEN c
        ELSE IF \A i \in 1..Len(ToolNames) : ToolNames[i] # toolName
        THEN Thrown(c.adapter, APIError(404, "Tool not found: " \o toolName), c.calls)
        ELSE IF ~ValidParameters(toolName, parameters)
        THEN Thrown(c.adapter, InvalidParameters(toolName, parameters), c.calls)
        ELSE IF Cached(c.adapter, toolName, parameters)
        THEN Returned(c.adapter, c.adapter.objectsMetadata[parameters.objectType],
                      c.calls)
        ELSE IF b.ok
        THEN Returned(Remember(c.adapter, toolName, parameters,
                               ToolResult(toolName, parameters, b)),
                      ToolResult(toolName, parameters, b),
                      c.calls \o <<ToolBackendCall(toolName)>>)
        ELSE Thrown(c.adapter, APIError(400, ToolFailure(toolName)),
                    c.calls \o <<ToolBackendCall(toolName)>>)

----------------------------------------------------------------------------
(* Modular server: routes/context.ts *)

\* function getAdapter(type) of context.ts
GetAdapter(type) ==
    IF ToLowerCase(type) = "salesforce"
    THEN Returned(NewSalesforceAdapter(Undefined, Undefined), "", <<>>)
    ELSE Thrown(NewSalesforceAdapter(Undefined, Undefined),
                APIError(400, "Unsupported service type: " \o type), <<>>)

\* an adapter operation a handler ran, and the stored connection behind the adapter
AdapterOp(op, adapter) == [op |-> op, connection |-> adapter.connection]

ServiceHeader(service) == "\n=== " \o ToUpperCase(service) \o " ===\n\n"

ResourceText(resource, content) ==
    "--- " \o resource.name \o " ---\n" \o content \o "\n\n"

ErrorMarker(service, error) ==
    "Error getting context for " \o service \o ": " \o error.message \o "\n\n"

Section(kind, index, service, resource, message, text) ==
    [kind |-> kind, index |-> index, service |-> service, resource |-> resource,
     message |-> message, text |-> text]

\* for (const resource of resources) { ... } from the k-th resource on
RECURSIVE ReadResources(_, _, _, _, _, _, _)
ReadResources(adapter, resources, k, index, service, includeMetadata, b) ==
    IF k > Len(resources)
    THEN [threw |-> FALSE, error |-> APIError(0, ""), sections |-> <<>>,
          meta |-> EmptyMap, ops |-> <<>>]
    ELSE LET r == ReadResource(adapter, resources[k].url, b)
             op == AdapterOp("readResource", adapter)
         IN  IF r.threw
             THEN [threw |-> TRUE, error |-> r.error, sections |-> <<>>,
                   meta |-> EmptyMap, ops |-> <<op>>]
             ELSE LET rest == ReadResources(r.adapter, resources, k + 1, index,
                                            service, includeMetadata, b)
                      entry == [timestamp |-> now, size |-> Len(r.value)]
                  IN  [threw |-> rest.threw, error |-> rest.error,
                       sections |-> <<Section("resource", index, service,
                                              resources[k].name, "",
                                              ResourceText(resources[k], r.value))>>
                                    \o rest.sections,
                       meta |-> IF includeMetadata
                                THEN rest.meta @@ (resources[k].name :> entry)
                                ELSE EmptyMap,
                       ops |-> <<op>> \o rest.ops]

\* what the catch block of a service caught, if it was entered
Raised(error) == [threw |-> TRUE, message |-> error.message]
NotRaised == [threw |-> FALSE, message |-> ""]

\* faulty variant: a service that raised contributes its error marker alone
ProcessServiceOnDiscarding(g, index, service, includeMetadata, b) ==
    LET errorSection(e) == Section("error", index, service, "", e.message,
                                   ErrorMarker(service, e))
    IN  IF g.threw
        THEN [raised |-> Raised(g.error), sections |-> <<errorSection(g.error)>>,
              meta |-> EmptyMap, ops |-> <<>>]
        ELSE LET resources == ListResources(g.adapter)
                 header == Section("header", index, service, "", "",
                                   ServiceHeader(service))
                 r == ReadResources(g.adapter, resources, 1, index, service,
                                    includeMetadata, b)
             IN  [raised |-> IF r.threw THEN Raised(r.error) ELSE NotRaised,
                  sections |-> IF r.threw THEN <<errorSection(r.error)>>
                               ELSE <<header>> \o r.sections,
                  meta |-> IF r.threw THEN EmptyMap ELSE r.meta,
                  ops |-> <<AdapterOp("listResources", g.adapter)>> \o r.ops]

\* the body of the per-service loop, try { ... } catch (error) { ... }, given
\* the outcome g of getAdapter(service)
ProcessServiceOn(g, index, service, includeMetadata, b) ==
    LET errorSection(e) == Section("error", index, service, "", e.message,
                                   ErrorMarker(service, e))
    IN  IF g.threw
        THEN [raised |-> Raised(g.error), sections |-> <<errorSection(g.error)>>,
              meta |-> EmptyMap, ops |-> <<>>]
        ELSE LET resources == ListResources(g.adapter)
                 header == Section("header", index, service, "", "",
                                   ServiceHeader(service))
                 r == ReadResources(g.adapter, resources, 1, index, service,
                                    includeMetadata, b)
             IN  [raised |-> IF r.threw THEN Raised(r.error) ELSE NotRaised,
                  sections |-> <<header>> \o r.sections \o
                               (IF r.threw THEN <<errorSection(r.error)>> ELSE <<>>),
                  meta |-> r.meta,
                  ops |-> <<AdapterOp("listResources", g.adapter)>> \o r.ops]

ProcessService(index, service, includeMetadata, b) ==
    ProcessServiceOn(GetAdapter(service), index, service, includeMetadata, b)

\* metadata[service] = metadata[service] || {}; metadata[service][name] = ...
MergeMetadata(metadata, service, meta) ==
    IF DOMAIN meta = {} THEN metadata
    ELSE IF service \in DOMAIN metadata
    THEN [metadata EXCEPT ![service] = meta @@ metadata[service]]
    ELSE metadata @@ (service :> meta)

\* faulty variant: a failing service ends the loop (no try/catch around a service)
RECURSIVE ProcessServicesAbortOnError(_, _, _, _, _)
ProcessServicesAbortOnError(services, i, includeMetadata, b, acc) ==
    IF i > Len(services) THEN acc
    ELSE LET p == ProcessService(i, services[i], includeMetadata, b)
             next == [sections |-> acc.sections \o p.sections,
                      metadata |-> MergeMetadata(acc.metadata, services[i], p.meta),
                      ops |-> acc.ops \o p.ops,
                      raised |-> Append(acc.raised, p.raised)]
         IN  IF p.raised.threw THEN next
             ELSE ProcessServicesAbortOnError(services, i + 1, includeMetadata, b, next)

\* faulty variant: each service's output is put in front of the document
RECURSIVE ProcessServicesNewestFirst(_, _, _, _, _)
ProcessServicesNewestFirst(services, i, includeMetadata, b, acc) ==
    IF i > Len(services) THEN acc
    ELSE LET p == ProcessService(i, services[i], includeMetadata, b)
         IN  ProcessServicesNewestFirst(services, i + 1, includeMetadata, b,
                 [sections |-> p.sections \o acc.sections,
                  metadata |-> MergeMetadata(acc.metadata, services[i], p.meta),
                  ops |-> acc.ops \o p.ops,
                  raised |-> Append(acc.raised, p.raised)])

\* for (const service of services) { ... } from the i-th service on, given
\* what the earlier services left
RECURSIVE ProcessServices(_, _, _, _, _)
ProcessServices(services, i, includeMetadata, b, acc) ==
    IF i > Len(services) THEN acc
    ELSE LET p == ProcessService(i, services[i], includeMetadata, b)
         IN  ProcessServices(services, i + 1, includeMetadata, b,
                 [sections |-> acc.sections \o p.sections,
                  metadata |-> MergeMetadata(acc.metadata, services[i], p.meta),
                  ops |-> acc.ops \o p.ops,
                  raised |-> Append(acc.raised, p.raised)])

RECURSIVE ConcatText(_)
ConcatText(sections) ==
    IF Len(sections) = 0 THEN ""
    ELSE sections[1].text \o ConcatText(Tail(sections))

\* if (options?.maxTokens) context = context.slice(0, options.maxTokens * 4)
Truncate(context, options) ==
    IF options.hasMaxTokens /\ options.maxTokens # 0
    THEN Slice0(context, options.maxTokens * 4)
    ELSE context

\* res.json(response), with data.metadata if (options?.includeMetadata)
ContextReply(userId, options, context, metadata) ==
    Reply("POST /context", userId, Undefined, 200,
          [success |-> TRUE,
           data |-> IF options.includeMetadata = "true"
                    THEN [context |-> context, metadata |-> metadata]
                    ELSE [context |-> context]])

GenerateContext(userId, services, options, b) ==
    /\ server = "modular"
    /\ resp = Idle
    /\ \E out \in {ProcessServices(services, 1, options.includeMetadata = "true", b,
                                  [sections |-> <<>>, metadata |-> EmptyMap,
                                   ops |-> <<>>, raised |-> <<>>])} :
       \E assembled \in {ConcatText(out.sections)} :
           /\ resp' = ContextReply(userId, options, Truncate(assembled, options),
                                   out.metadata)
           /\ run' = [NoRun EXCEPT !.ops = out.ops, !.sections = out.sections,
                                   !.assembled = assembled, !.services = services,
                                   !.raised = out.raised, !.options = options,
                                   !.metadata = out.metadata]
    /\ UNCHANGED <<server, now, connections, mcpUsers, mcpConnections>>
    /\ UNCHANGED <<adapterVars, otherVars>>

RECURSIVE SeqsUpTo(_, _)
SeqsUpTo(S, n) ==
    IF n = 0 THEN {<<>>}
    ELSE LET shorter == SeqsUpTo(S, n - 1)
         IN  shorter \cup {Append(q, x) : q \in shorter, x \in S}

\* request options the schema accepts: maxTokens absent, negative, zero, small
\* and large; includeMetadata absent, false and true
ContextOptions ==
    { NoOptions,
      [hasMaxTokens |-> FALSE, maxTokens |-> 0, includeMetadata |-> "true"],
      [hasMaxTokens |-> TRUE, maxTokens |-> 0, includeMetadata |-> "false"],
      [hasMaxTokens |-> TRUE, maxTokens |-> 0 - 1, includeMetadata |-> "absent"],
      [hasMaxTokens |-> TRUE, maxTokens |-> 2, includeMetadata |-> "true"],
      [hasMaxTokens |-> TRUE, maxTokens |-> 30, includeMetadata |-> "true"] }

----------------------------------------------------------------------------
(* The handler of POST /context taken one loop iteration at a time.  An    *)
(* iteration runs on the adapter getAdapter builds, which holds no          *)
(* credentials: its first readResource raises before any backend call, so  *)
(* an iteration awaits nothing that lets another request in.               *)

\* the request is being handled: the loop over the services is running
Pending(userId) ==
    [Idle EXCEPT !.route = "POST /context", !.user = userId, !.outcome = "pending"]

\* contextRequestSchema.parse(req.body); let context = ''; const metadata = {}
BeginContext(userId, options) ==
    /\ server = "modular"
    /\ resp = Idle
    /\ resp' = Pending(userId)
    /\ run' = [NoRun EXCEPT !.options = options]
    /\ UNCHANGED <<server, now, connections, mcpUsers, mcpConnections>>
    /\ UNCHANGED <<adapterVars, otherVars>>

\* one iteration of for (const service of services)
ServiceStep(service, b) ==
    /\ resp.outcome = "pending"
    /\ Len(run.services) < MaxServices
    /\ \E p \in {ProcessService(Len(run.services) + 1, service,
                                run.options.includeMetadata = "true", b)} :
          run' = [run EXCEPT !.services = Append(@, service),
                             !.sections = @ \o p.sections,
                             !.assembled = @ \o ConcatText(p.sections),
                             !.metadata = MergeMetadata(@, service, p.meta),
                             !.ops = @ \o p.ops,
                             !.raised = Append(@, p.raised)]
    /\ UNCHANGED <<server, now, connections, mcpUsers, mcpConnections, resp>>
    /\ UNCHANGED <<adapterVars, otherVars>>

\* after the loop: the cut to maxTokens and res.json(response)
EndContext ==
    /\ resp.outcome = "pending"
    /\ resp' = ContextReply(resp.user, run.options,
                            Truncate(run.assembled, run.options), run.metadata)
    /\ UNCHANGED <<server, now, connections, mcpUsers, mcpConnections, run>>
    /\ UNCHANGED <<adapterVars, otherVars>>

----------------------------------------------------------------------------
(* Modular server: routes/tools.ts *)

\* function getAdapter(type) of tools.ts
GetToolsAdapter(type) ==
    IF ToLowerCase(type) = "salesforce"
    THEN Returned(NewSalesforceAdapter(Undefined, Undefined), "", <<>>)
    ELSE Thrown(NewSalesforceAdapter(Undefined, Undefined),
                APIError(400, "Unsupported connection type: " \o type), <<>>)

\* router.get('/:connectionType')
GetTools(userId, connectionType) ==
    /\ server = "modular"
    /\ resp = Idle
    /\ \E g \in {GetToolsAdapter(connectionType)} :
          IF g.threw
          THEN /\ resp' = NextError("GET /tools/:type", userId, connectionType, g.error)
               /\ run' = NoRun
          ELSE /\ resp' = Reply("GET /tools/:type", userId, connectionType, 200,
                                [success |-> TRUE, data |-> ListTools(g.adapter)])
               /\ run' = [NoRun EXCEPT !.ops = <<AdapterOp("listTools", g.adapter)>>]
    /\ UNCHANGED <<server, now, connections, mcpUsers, mcpConnections>>
    /\ UNCHANGED <<adapterVars, otherVars>>

\* router.post('/:connectionType/:toolName')
PostTool(userId, connectionType, toolName, parameters, b) ==
    /\ server = "modular"
    /\ resp = Idle
    /\ \E g \in {GetToolsAdapter(connectionType)} :
          IF g.threw
          THEN /\ resp' = NextError("POST /tools/:type/:tool", userId, connectionType,
                                    g.error)
               /\ run' = NoRun
          ELSE IF \A i \in 1..Len(ListTools(g.adapter)) :
                     ListTools(g.adapter)[i] # toolName
          THEN /\ resp' = NextError("POST /tools/:type/:tool", userId, connectionType,
                                    APIError(404, "Tool not found"))
               /\ run' = [NoRun EXCEPT !.ops = <<AdapterOp("listTools", g.adapter)>>]
          ELSE \E r \in {CallTool(g.adapter, toolName, parameters, b)} :
               /\ resp' = IF r.threw
                          THEN NextError("POST /tools/:type/:tool", userId,
                                         connectionType, r.error)
                          ELSE Reply("POST /tools/:type/:tool", userId,
                                     connectionType, 200,
                                     [success |-> TRUE, data |-> r.value])
               /\ run' = [NoRun EXCEPT !.ops = <<AdapterOp("listTools", g.adapter),
                                                 AdapterOp("callTool", g.adapter)>>,
                                       !.threw = r.threw, !.calls = r.calls]
    /\ UNCHANGED <<server, now, connections, mcpUsers, mcpConnections>>
    /\ UNCHANGED <<adapterVars, otherVars>>

----------------------------------------------------------------------------
(* Legacy server: the adapter of src/unnamed/part_001 *)

\* new Error(message): an error without a statusCode, written status 0
Error(message) == [status |-> 0, message |-> message]

McpSalesforceAdapter(credentials, connection) ==
    [credentials |-> credentials, connection |-> connection, isConnected |-> FALSE,
     objectsMetadata |-> EmptyMap]

McpEnsureConnection(adapter) ==
    IF adapter.isConnected THEN Returned(adapter, "", <<>>)
    ELSE IF adapter.credentials \in BackendAccepts
    THEN Returned([adapter EXCEPT !.isConnected = TRUE], "", <<"login">>)
    ELSE Thrown(adapter, Error("Failed to authenticate with Salesforce"), <<"login">>)

\* faulty variant: the response carries a fixed id instead of the request's
HandleDiscoverFixedId(adapter, message) ==
    Returned(adapter,
             [type |-> "discover_response", id |-> "m1",
              name |-> "Salesforce", version |-> "1.0.0",
              capabilities |-> <<"resources", "tools">>],
             <<>>)

HandleDiscover(adapter, message) ==
    Returned(adapter,
             [type |-> "discover_response", id |-> Field(message, "id"),
              name |-> "Salesforce", version |-> "1.0.0",
              capabilities |-> <<"resources", "tools">>],
             <<>>)

\* faulty variant: the resource list is answered after ensureConnection, as
\* a read is
HandleListResourcesLoggingIn(adapter, message) ==
    LET c == McpEnsureConnection(adapter)
    IN  Returned(c.adapter,
                 [type |-> "list_resources_response", id |-> Field(message, "id"),
                  resources |-> SALESFORCE_RESOURCES],
                 c.calls)

HandleListResources(adapter, message) ==
    Returned(adapter,
             [type |-> "list_resources_response", id |-> Field(message, "id"),
              resources |-> SALESFORCE_RESOURCES],
             <<>>)

HandleListTools(adapter, message) ==
    Returned(adapter,
             [type |-> "list_tools_response", id |-> Field(message, "id"),
              tools |-> ToolNames],
             <<>>)

\* getGlobalObjects() of part_001: the encoding, the batch size and seven
\* fields of each listed object type
McpGetGlobalObjects(result) ==
    [encoding |-> result.encoding, maxBatchSize |-> result.maxBatchSize,
     sobjects |-> [i \in 1..Len(result.sobjects) |->
                      [name |-> result.sobjects[i].name,
                       label |-> result.sobjects[i].label,
                       custom |-> result.sobjects[i].custom,
                       createable |-> result.sobjects[i].createable,
                       updateable |-> result.sobjects[i].updateable,
                       deletable |-> result.sobjects[i].deletable,
                       queryable |-> result.sobjects[i].queryable]]]

\* JSON.stringify(objects, null, 2) of what that getGlobalObjects returns
McpStringifyObjects(objects) ==
    JsonObject(
        << <<"encoding", JsonString(objects.encoding)>>,
           <<"maxBatchSize", NumStr(objects.maxBatchSize)>>,
           <<"sobjects",
             JsonArray([i \in 1..Len(objects.sobjects) |->
                 JsonObject(
                     << <<"name", JsonString(objects.sobjects[i].name)>>,
                        <<"label", JsonString(objects.sobjects[i].label)>>,
                        <<"custom", JsonBoolean(objects.sobjects[i].custom)>>,
                        <<"createable", JsonBoolean(objects.sobjects[i].createable)>>,
                        <<"updateable", JsonBoolean(objects.sobjects[i].updateable)>>,
                        <<"deletable", JsonBoolean(objects.sobjects[i].deletable)>>,
                        <<"queryable", JsonBoolean(objects.sobjects[i].queryable)>> >>,
                     2)],
                 1)>> >>,
        0)

HandleReadResource(adapter, message, b) ==
    LET c == McpEnsureConnection(adapter)
        resourceUrl == Field(message, "resource")
    IN  IF c.threw THEN c
        ELSE IF resourceUrl = "schema"
        THEN IF b.ok
             THEN Returned(c.adapter,
                           [type |-> "read_resource_response",
                            id |-> Field(message, "id"),
                            content |-> McpStringifyObjects(
                                            McpGetGlobalObjects(DescribeGlobal(b)))],
                           c.calls \o <<"describeGlobal">>)
             ELSE Thrown(c.adapter,
                         Error("Failed to get global objects: backend error"),
                         c.calls \o <<"describeGlobal">>)
        ELSE IF resourceUrl = "recent_items"
        THEN IF b.ok
             THEN Returned(c.adapter,
                           [type |-> "read_resource_response",
                            id |-> Field(message, "id"),
                            content |-> JsonStringify(b.payload)],
                           c.calls \o <<"recent">>)
             ELSE Thrown(c.adapter, Error("backend error"), c.calls \o <<"recent">>)
        ELSE Thrown(c.adapter, Error("Unknown resource: " \o resourceUrl), c.calls)

\* params.soql / params.objectType when message.parameters is undefined
ParamsUndefined(toolName) ==
    Error("Cannot read properties of undefined (reading '"
          \o RequiredKeys(toolName)[1] \o "')")

HandleCallTool(adapter, message, b) ==
    LET c == McpEnsureConnection(adapter)
        toolName == Field(message, "tool")
        params == IF "parameters" \in DOMAIN message THEN message.parameters
                  ELSE EmptyMap
    IN  IF c.threw THEN c
        ELSE IF \A i \in 1..Len(ToolNames) : ToolNames[i] # toolName
        THEN Thrown(c.adapter, Error("Unknown tool: " \o toolName), c.calls)
        ELSE IF "parameters" \notin DOMAIN message
        THEN Thrown(c.adapter, ParamsUndefined(toolName), c.calls)
        ELSE IF Cached(c.adapter, toolName, params)
        THEN Returned(c.adapter,
                      [type |-> "call_tool_response", id |-> Field(message, "id"),
                       result |-> c.adapter.objectsMetadata[Field(params, "objectType")]],
                      c.calls)
        ELSE IF b.ok
        THEN Returned(Remember(c.adapter, toolName, params,
                               ToolResult(toolName, params, b)),
                      [type |-> "call_tool_response", id |-> Field(message, "id"),
                       result |-> ToolResult(toolName, params, b)],
                      c.calls \o <<ToolBackendCall(toolName)>>)
        ELSE Thrown(c.adapter, Error(ToolFailure(toolName)),
                    c.calls \o <<ToolBackendCall(toolName)>>)

HandleMcpMessage(adapter, message, b) ==
    CASE message.type = "discover" -> HandleDiscover(adapter, message)
      [] message.type = "list_resources" -> HandleListResources(adapter, message)
      [] message.type = "read_resource" -> HandleReadResource(adapter, message, b)
      [] message.type = "list_tools" -> HandleListTools(adapter, message)
      [] message.type = "call_tool" -> HandleCallTool(adapter, message, b)
      [] OTHER -> Thrown(adapter,
                         Error("Unsupported message type: " \o message.type), <<>>)

----------------------------------------------------------------------------
(* Legacy server: the routes of src/unnamed/part_000 *)

McpConnectionId(type, t) == type \o "_" \o NumStr(t)

AllMcpConnectionIds == {McpConnectionId(ty, t) : ty \in ConnTypes, t \in 0..MaxTime}

McpConnectionView(conn) == [id |-> conn.id, type |-> conn.type]

\* app.post('/api/register')
McpRegister(email) ==
    /\ server = "legacy"
    /\ resp = Idle
    /\ IF email \in DOMAIN mcpUsers
       THEN /\ resp' = Reply("POST /api/register", email, Undefined, 400,
                             [error |-> "User already exists"])
            /\ UNCHANGED mcpUsers
       ELSE /\ mcpUsers' = Put(mcpUsers, email, [email |-> email, connections |-> <<>>])
            /\ resp' = Reply("POST /api/register", email, Undefined, 201,
                             [message |-> "User created successfully"])
    /\ run' = NoRun
    /\ UNCHANGED <<server, now, connections, mcpConnections>>
    /\ UNCHANGED <<adapterVars, otherVars>>

\* app.post('/api/connections').  For a token whose user this process never
\* registered, user.connections.push throws after the record was stored: the
\* async handler's promise is rejected with nothing to handle it, and the
\* process ends, and with it its stores and the handlers it had suspended
McpAddConnection(userEmail, type, credentials) ==
    /\ server = "legacy"
    /\ resp = Idle
    /\ LET connectionId == McpConnectionId(type, now)
           record == [id |-> connectionId, type |-> type,
                      credentials |-> credentials, owner |-> userEmail]
       IN  IF userEmail \in DOMAIN mcpUsers
              THEN /\ connectionId \in DOMAIN mcpConnections
                      \/ Cardinality(DOMAIN mcpConnections) < MaxConns
                   /\ Len(mcpUsers[userEmail].connections) < MaxConns
                   /\ mcpConnections' = Put(mcpConnections, connectionId, record)
                   /\ mcpUsers' = [mcpUsers EXCEPT ![userEmail].connections =
                                        Append(@, connectionId)]
                   /\ resp' = Reply("POST /api/connections", userEmail,
                                    connectionId, 201,
                                    [connectionId |-> connectionId])
                   /\ UNCHANGED <<server, suspended>>
              ELSE /\ server' = "exited"
                   /\ mcpConnections' = EmptyMap
                   /\ mcpUsers' = EmptyMap
                   /\ suspended' = <<>>
                   /\ resp' = [Idle EXCEPT !.route = "POST /api/connections",
                                           !.user = userEmail,
                                           !.target = connectionId,
                                           !.outcome = "unhandled rejection"]
    /\ run' = NoRun
    /\ UNCHANGED <<now, connections>>
    /\ UNCHANGED <<adapterVars, users, clientVars, engineVars>>

\* app.get('/api/connections')
McpListConnections(userEmail) ==
    /\ server = "legacy"
    /\ resp = Idle
    /\ IF userEmail \notin DOMAIN mcpUsers
       THEN resp' = Reply("GET /api/connections", userEmail, Undefined, 404,
                          [error |-> "User not found"])
       ELSE LET ids == mcpUsers[userEmail].connections
                kept == SelectSeq(ids, LAMBDA id : id \in DOMAIN mcpConnections)
            IN  resp' = Reply("GET /api/connections", userEmail, Undefined, 200,
                              [i \in 1..Len(kept) |->
                                   McpConnectionView(mcpConnections[kept[i]])])
    /\ run' = NoRun
    /\ UNCHANGED <<server, now, connections, mcpUsers, mcpConnections>>
    /\ UNCHANGED <<adapterVars, otherVars>>

\* the reply of the router once the connection passed the owner check
McpRoute(userEmail, connection, h) ==
    IF h.threw
    THEN Reply("POST /api/mcp/:connectionId", userEmail, connection.id, 500,
               [error |-> "Failed to process MCP request"])
    ELSE Reply("POST /api/mcp/:connectionId", userEmail, connection.id, 200, h.value)

\* a backend whose calls succeed
Succeeding == [ok |-> TRUE, payload |-> <<>>]

\* a handler of POST /api/mcp/:connectionId suspended inside `await
\* salesforceAdapter.handleMcpMessage(mcpMessage)`: the connection record
\* it read, the adapter it built, and the call of jsforce it waits for
McpSuspended(userEmail, connection, mcpMessage, adapter, pc) ==
    [op |-> "mcp", user |-> userEmail, connection |-> connection,
     message |-> mcpMessage, adapter |-> adapter, pc |-> pc]

\* what the handler has done when it replies
McpRun(mcpMessage, adapter, h) ==
    [NoRun EXCEPT !.message = mcpMessage,
                  !.ops = <<AdapterOp("handleMcpMessage", adapter)>>,
                  !.threw = h.threw, !.calls = h.calls]

\* app.post('/api/mcp/:connectionId') up to its first await of jsforce: the
\* two checks, the adapter, and handleMcpMessage as far as it runs without
\* the backend.  A discover, a list or a message of an unknown type is
\* answered in this step; a read or a tool call is suspended in conn.login
McpDispatch(userEmail, connectionId, mcpMessage) ==
    /\ server = "legacy"
    /\ resp = Idle
    /\ IF connectionId \notin DOMAIN mcpConnections
       THEN /\ resp' = Reply("POST /api/mcp/:connectionId", userEmail, connectionId,
                             404, [error |-> "Connection not found"])
            /\ run' = NoRun
            /\ UNCHANGED suspended
       ELSE IF mcpConnections[connectionId].owner # userEmail
       THEN /\ resp' = Reply("POST /api/mcp/:connectionId", userEmail, connectionId,
                             403, [error |-> "Access denied"])
            /\ run' = NoRun
            /\ UNCHANGED suspended
       ELSE IF mcpConnections[connectionId].type = "salesforce"
       THEN \E connection \in {mcpConnections[connectionId]} :
            \E adapter \in {McpSalesforceAdapter(connection.credentials, connection.id)} :
            \E h \in {HandleMcpMessage(adapter, mcpMessage, Succeeding)} :
               IF h.calls = <<>>
               THEN /\ resp' = McpRoute(userEmail, connection, h)
                    /\ run' = McpRun(mcpMessage, adapter, h)
                    /\ UNCHANGED suspended
               ELSE /\ Len(suspended) < MaxInFlight
                    /\ suspended' = Append(suspended,
                                           McpSuspended(userEmail, connection,
                                                        mcpMessage, adapter, "login"))
                    /\ UNCHANGED <<resp, run>>
       ELSE /\ resp' = Reply("POST /api/mcp/:connectionId", userEmail, connectionId,
                             400, [error |-> "Unsupported connection type"])
            /\ run' = [NoRun EXCEPT !.message = mcpMessage]
            /\ UNCHANGED suspended
    /\ UNCHANGED <<server, now, connections, mcpUsers, mcpConnections>>
    /\ UNCHANGED <<adapterVars, users, clientVars, engineVars>>

\* conn.login of a suspended handler settles, accepted or rejected by the
\* credentials of its adapter.  The handler goes on to its data call, or it
\* is answered here: with 500 when the login was rejected or when
\* handleMcpMessage throws before a data call
McpLoginSettles(k) ==
    /\ server = "legacy"
    /\ resp = Idle
    /\ k \in 1..Len(suspended)
    /\ suspended[k].op = "mcp"
    /\ suspended[k].pc = "login"
    /\ \E h \in {HandleMcpMessage(suspended[k].adapter, suspended[k].message,
                                  Succeeding)} :
          IF Len(h.calls) = 1
          THEN /\ resp' = McpRoute(suspended[k].user, suspended[k].connection, h)
               /\ run' = McpRun(suspended[k].message, suspended[k].adapter, h)
               /\ suspended' = Remove(suspended, k)
          ELSE /\ suspended' = [suspended EXCEPT ![k].pc = "backend"]
               /\ UNCHANGED <<resp, run>>
    /\ UNCHANGED <<server, now, connections, mcpUsers, mcpConnections>>
    /\ UNCHANGED <<adapterVars, users, clientVars, engineVars>>

\* the data call of a suspended handler settles against backend b, and the
\* handler replies
McpBackendSettles(k, b) ==
    /\ server = "legacy"
    /\ resp = Idle
    /\ k \in 1..Len(suspended)
    /\ suspended[k].op = "mcp"
    /\ suspended[k].pc = "backend"
    /\ \E h \in {HandleMcpMessage(suspended[k].adapter, suspended[k].message, b)} :
          /\ resp' = McpRoute(suspended[k].user, suspended[k].connection, h)
          /\ run' = McpRun(suspended[k].message, suspended[k].adapter, h)
    /\ suspended' = Remove(suspended, k)
    /\ UNCHANGED <<server, now, connections, mcpUsers, mcpConnections>>
    /\ UNCHANGED <<adapterVars, users, clientVars, engineVars>>

AllParameters == [soql |-> "SELECT Id FROM Account", objectType |-> "Account",
                  recordId |-> "001"]

\* envelopes a client may send: the five request kinds under two ids, an
\* unknown kind, envelopes without id, unknown resource and tool names, and a
\* tool call without parameters
McpMessages ==
    { [type |-> "discover", id |-> "m1"],
      [type |-> "discover", id |-> "m2"],
      [type |-> "list_resources", id |-> "m1"],
      [type |-> "list_tools", id |-> "m2"],
      [type |-> "read_resource", id |-> "m1", resource |-> "schema"],
      [type |-> "read_resource", id |-> "m2", resource |-> "recent_items"],
      [type |-> "read_resource", id |-> "m1", resource |-> "nonexistent"],
      [type |-> "call_tool", id |-> "m1", tool |-> "describe_object",
       parameters |-> AllParameters],
      [type |-> "call_tool", id |-> "m2", tool |-> "query_records",
       parameters |-> AllParameters],
      [type |-> "call_tool", id |-> "m1", tool |-> "get_record",
       parameters |-> AllParameters],
      [type |-> "call_tool", id |-> "m2", tool |-> "nonexistent",
       parameters |-> AllParameters],
      [type |-> "call_tool", id |-> "m1", tool |-> "query_records"],
      [type |-> "bogus", id |-> "m1"],
      [type |-> "discover"],
      [type |-> "bogus"],
      [type |-> "read_resource", resource |-> "schema"] }

\* the router reads the request body only once the connection was found and
\* belongs to the requester, and reaches the backend only through an adapter
McpReadsBody(userEmail, connectionId) ==
    /\ connectionId \in DOMAIN mcpConnections
    /\ mcpConnections[connectionId].owner = userEmail

McpBodies(userEmail, connectionId) ==
    IF McpReadsBody(userEmail, connectionId) THEN McpMessages
    ELSE {[type |-> "discover", id |-> "m1"]}

----------------------------------------------------------------------------
(* One SalesforceAdapter instance driven method by method.  A method call  *)
(* runs up to its next await in one step; conn.login and the data calls of       *)
(* jsforce settle in steps of their own, so calls on the instance overlap        *)
(* the way promises of one event loop do.  server says which class the     *)
(* instance is of: adapters/salesforce.ts ("modular") or                   *)
(* src/unnamed/part_001 ("legacy", entered through handleMcpMessage).      *)

\* new SalesforceAdapter(credentials): isConnected = false, objectsMetadata
\* = new Map()
NewInstance(credentials) ==
    [credentials |-> credentials, isConnected |-> FALSE, objectsMetadata |-> EmptyMap]

NoInstance == NewInstance(Undefined)

\* the instance as the adapter value the method operators take
AsAdapter(i) ==
    [credentials |-> i.credentials, connection |-> Undefined,
     isConnected |-> i.isConnected, objectsMetadata |-> i.objectsMetadata]

\* the calls made on the instance: discover (legacy only), the two
\* descriptor lists, readResource and callTool with known and unknown names
\* and with parameters that do and do not satisfy the tool's schema
AdapterRequests ==
    { [kind |-> "discover", name |-> "", parameters |-> EmptyMap],
      [kind |-> "list_tools", name |-> "", parameters |-> EmptyMap],
      [kind |-> "list_resources", name |-> "", parameters |-> EmptyMap],
      [kind |-> "read_resource", name |-> "schema", parameters |-> EmptyMap],
      [kind |-> "read_resource", name |-> "nonexistent", parameters |-> EmptyMap],
      [kind |-> "call_tool", name |-> "describe_object", parameters |-> AllParameters],
      [kind |-> "call_tool", name |-> "query_records", parameters |-> AllParameters],
      [kind |-> "call_tool", name |-> "query_records", parameters |-> EmptyMap],
      [kind |-> "call_tool", name |-> "nonexistent", parameters |-> EmptyMap] }

StaticKinds == {"discover", "list_tools", "list_resources"}

\* the envelope handleMcpMessage receives for a request
Envelope(req) ==
    CASE req.kind = "read_resource" ->
            [type |-> req.kind, id |-> "m1", resource |-> req.name]
      [] req.kind = "call_tool" ->
            [type |-> req.kind, id |-> "m1", tool |-> req.name,
             parameters |-> req.parameters]
      [] OTHER -> [type |-> req.kind, id |-> "m1"]

NoError == APIError(0, "")

\* a login of the instance has failed
LoginHasFailed ==
    \E k \in 1..Len(roundTrips) :
        roundTrips[k].call = "login" /\ roundTrips[k].result = "failed"

\* a method call on the instance: pc is "login" (awaiting conn.login),
\* "ready" (ensureConnection resolved), "backend" (awaiting a data call),
\* "returned" or "threw"; failedBefore says whether a login of the instance
\* had already failed when the call was made
Call(req, pc, error, value) ==
    [kind |-> req.kind, name |-> req.name, parameters |-> req.parameters,
     pc |-> pc, error |-> error, value |-> value, failedBefore |-> LoginHasFailed]

\* a backend round trip issued by call number by; failedBefore says whether
\* a login of the instance had already failed when it was issued
RoundTrip(call, key, by) ==
    [call |-> call, key |-> key, by |-> by, result |-> "pending",
     failedBefore |-> LoginHasFailed]

\* the pending round trip of call number i
PendingOf(i) ==
    CHOOSE k \in 1..Len(roundTrips) :
        roundTrips[k].by = i /\ roundTrips[k].result = "pending"

\* new APIError(status, message) of salesforce.ts, new Error(message) of part_001
Failure(status, message) ==
    IF server = "modular" THEN APIError(status, message) ELSE Error(message)

\* the value of a static call: the descriptor table itself
StaticValue(req) ==
    IF server = "modular"
    THEN IF req.kind = "list_tools" THEN ListTools(AsAdapter(inst))
         ELSE ListResources(AsAdapter(inst))
    ELSE LET h == HandleMcpMessage(AsAdapter(inst), Envelope(req),
                                   [ok |-> TRUE, payload |-> <<>>])
         IN  IF req.kind = "list_tools" THEN h.value.tools
             ELSE IF req.kind = "list_resources" THEN h.value.resources
             ELSE h.value.capabilities

\* listTools / listResources / handleDiscover / handleListResources /
\* handleListTools: no await, the call returns in the step that makes it
InvokeStatic(req) ==
    /\ req.kind \in StaticKinds
    /\ req.kind = "discover" => server = "legacy"
    /\ Len(methodCalls) < MaxCalls
    /\ \E h \in {IF server = "legacy"
                 THEN HandleMcpMessage(AsAdapter(inst), Envelope(req),
                                       [ok |-> TRUE, payload |-> <<>>])
                 ELSE Returned(AsAdapter(inst), "", <<>>)} :
          /\ methodCalls' = Append(methodCalls,
                                   Call(req, "returned", NoError, StaticValue(req)))
          /\ inst' = [inst EXCEPT !.isConnected = h.adapter.isConnected]
          /\ roundTrips' = roundTrips \o [k \in 1..Len(h.calls) |->
                               [RoundTrip(h.calls[k], "", Len(methodCalls) + 1)
                                   EXCEPT !.result = "ok"]]
    /\ UNCHANGED <<server, now, connections, mcpUsers, mcpConnections, resp, run>>
    /\ UNCHANGED otherVars

\* readResource / callTool / handleReadResource / handleCallTool up to the
\* await inside ensureConnection
Invoke(req) ==
    /\ req.kind \notin StaticKinds
    /\ Len(methodCalls) < MaxCalls
    /\ IF inst.isConnected
       THEN /\ methodCalls' = Append(methodCalls, Call(req, "ready", NoError, ""))
            /\ UNCHANGED roundTrips
       ELSE IF server = "modular" /\ inst.credentials = Undefined
       THEN /\ methodCalls' = Append(methodCalls,
                   Call(req, "threw",
                        APIError(400, "Salesforce credentials not provided"), ""))
            /\ UNCHANGED roundTrips
       ELSE /\ methodCalls' = Append(methodCalls, Call(req, "login", NoError, ""))
            /\ roundTrips' = Append(roundTrips,
                                    RoundTrip("login", "", Len(methodCalls) + 1))
    /\ UNCHANGED <<server, now, connections, mcpUsers, mcpConnections, resp, run, inst>>
    /\ UNCHANGED otherVars

\* conn.login settles: the backend accepts only known credentials, and may
\* fail a login it would otherwise accept
LoginSettles(i, ok) ==
    /\ i \in 1..Len(methodCalls)
    /\ methodCalls[i].pc = "login"
    /\ ok => inst.credentials \in BackendAccepts
    /\ roundTrips' = [roundTrips EXCEPT
                        ![PendingOf(i)].result = IF ok THEN "ok" ELSE "failed"]
    /\ IF ok
       THEN /\ inst' = [inst EXCEPT !.isConnected = TRUE]
            /\ methodCalls' = [methodCalls EXCEPT ![i].pc = "ready"]
       ELSE /\ methodCalls' = [methodCalls EXCEPT
                           ![i].pc = "threw",
                           ![i].error = Failure(500, "Failed to authenticate with Salesforce")]
            /\ UNCHANGED inst
    /\ UNCHANGED <<server, now, connections, mcpUsers, mcpConnections, resp, run>>
    /\ UNCHANGED otherVars

\* what the method body does after ensureConnection, up to its next await:
\* "throw", "return" (a cached describe) or the data call it issues
BodyStep(c) ==
    IF c.kind = "read_resource"
    THEN IF c.name = "schema" THEN [do |-> "describeGlobal", error |-> NoError]
         ELSE IF c.name = "recent_items" THEN [do |-> "recent", error |-> NoError]
         ELSE [do |-> "throw",
               error |-> Failure(404, "Unknown resource: " \o c.name)]
    ELSE IF \A k \in 1..Len(ToolNames) : ToolNames[k] # c.name
    THEN [do |-> "throw",
          error |-> IF server = "modular"
                    THEN APIError(404, "Tool not found: " \o c.name)
                    ELSE Error("Unknown tool: " \o c.name)]
    ELSE IF server = "modular" /\ ~ValidParameters(c.name, c.parameters)
    THEN [do |-> "throw", error |-> InvalidParameters(c.name, c.parameters)]
    ELSE IF Cached(inst, c.name, c.parameters)
    THEN [do |-> "return", error |-> NoError]
    ELSE [do |-> ToolBackendCall(c.name), error |-> NoError]

\* the key of a data call: the object type of a describe
KeyOf(c) ==
    IF c.kind = "call_tool" /\ c.name = "describe_object"
    THEN Field(c.parameters, "objectType") ELSE ""

\* what the method returns for the value v of its data call or cache hit:
\* v itself (salesforce.ts), the response envelope around it (part_001)
MethodValue(c, v) ==
    IF server = "modular" THEN v
    ELSE IF c.kind = "read_resource"
    THEN [type |-> "read_resource_response", id |-> Field(Envelope(c), "id"),
          content |-> v]
    ELSE [type |-> "call_tool_response", id |-> Field(Envelope(c), "id"),
          result |-> v]

\* what the method makes of the data call that succeeded against backend b
DataValue(c, b) ==
    IF c.kind = "call_tool" THEN ToolResult(c.name, c.parameters, b)
    ELSE IF c.name = "recent_items" THEN JsonStringify(b.payload)
    ELSE IF server = "modular"
    THEN StringifyObjects(GetGlobalObjects(DescribeGlobal(b)))
    ELSE McpStringifyObjects(McpGetGlobalObjects(DescribeGlobal(b)))

\* the continuation after await this.ensureConnection()
Resume(i) ==
    /\ i \in 1..Len(methodCalls)
    /\ methodCalls[i].pc = "ready"
    /\ \E s \in {BodyStep(methodCalls[i])} :
          IF s.do = "throw"
          THEN /\ methodCalls' = [methodCalls EXCEPT ![i].pc = "threw",
                                                     ![i].error = s.error]
               /\ UNCHANGED roundTrips
          ELSE IF s.do = "return"
          THEN /\ methodCalls' = [methodCalls EXCEPT ![i].pc = "returned",
                                         ![i].value =
                                             MethodValue(methodCalls[i],
                                                 inst.objectsMetadata[KeyOf(methodCalls[i])])]
               /\ UNCHANGED roundTrips
          ELSE /\ methodCalls' = [methodCalls EXCEPT ![i].pc = "backend"]
               /\ roundTrips' = Append(roundTrips,
                                       RoundTrip(s.do, KeyOf(methodCalls[i]), i))
    /\ UNCHANGED <<server, now, connections, mcpUsers, mcpConnections, resp, run, inst>>
    /\ UNCHANGED otherVars

\* the error a failed data call surfaces as
DataFailure(c) ==
    IF c.kind = "call_tool"
    THEN Failure(400, ToolFailure(c.name))
    ELSE IF c.name = "recent_items"
    THEN IF server = "modular"
         THEN APIError(500, "Failed to read Salesforce resource")
         ELSE Error("backend error")
    ELSE IF server = "modular"
    THEN APIError(500, "Failed to retrieve Salesforce objects")
    ELSE Error("Failed to get global objects: backend error")

\* a data call of jsforce settles against backend b; a describe that
\* succeeded is cached
BackendSettles(i, b) ==
    /\ i \in 1..Len(methodCalls)
    /\ methodCalls[i].pc = "backend"
    /\ roundTrips' = [roundTrips EXCEPT
                        ![PendingOf(i)].result = IF b.ok THEN "ok" ELSE "failed"]
    /\ IF b.ok
       THEN /\ methodCalls' = [methodCalls EXCEPT
                           ![i].pc = "returned",
                           ![i].value = MethodValue(methodCalls[i],
                                                    DataValue(methodCalls[i], b))]
            /\ inst' = Remember(inst, methodCalls[i].name, methodCalls[i].parameters,
                                DataValue(methodCalls[i], b))
       ELSE /\ methodCalls' = [methodCalls EXCEPT ![i].pc = "threw",
                                      ![i].error = DataFailure(methodCalls[i])]
            /\ UNCHANGED inst
    /\ UNCHANGED <<server, now, connections, mcpUsers, mcpConnections, resp, run>>
    /\ UNCHANGED otherVars

----------------------------------------------------------------------------
(* Modular server: middleware/authenticate.ts (src/unnamed/part_004) and   *)
(* the mounting of the routers behind it (src/unnamed/part_002)            *)

\* process.env.API_KEY
API_KEY == "key-1"

\* jwt.verify(token, secret): the tokens signed with the server's secret and
\* not expired, with the payload they decode to
SignedTokens ==
    [t \in {"jwt.u1", "jwt.u2"} |->
        IF t = "jwt.u1" THEN [id |-> "u1", email |-> "u1@example.com"]
        ELSE [id |-> "u2", email |-> "u2@example.com"]]

\* String.prototype.startsWith
StartsWith(s, prefix) ==
    Len(s) >= Len(prefix) /\ SubSeq(s, 1, Len(prefix)) = prefix

\* the first position from i on at which s has a space, Len(s) + 1 if none
RECURSIVE NextSpace(_, _)
NextSpace(s, i) ==
    IF i > Len(s) THEN Len(s) + 1
    ELSE IF SubSeq(s, i, i) = " " THEN i
    ELSE NextSpace(s, i + 1)

\* s.split(' ')[1] for an s that holds a space
SecondWord(s) ==
    LET first == NextSpace(s, 1)
    IN  SubSeq(s, first + 1, NextSpace(s, first + 1) - 1)

\* the x-api-key and authorization headers a request may carry
RequestHeaders ==
    [apiKey : {Undefined, "", "key-1", "key-2"},
     authorization : {Undefined, "Basic dTE6cHc=", "bearer jwt.u1", "Bearer ",
                      "Bearer  jwt.u1", "Bearer jwt.forged", "Bearer jwt.u1",
                      "Bearer jwt.u2"}]

\* res.status(401).json({ success: false, error })
Unauthorized(error) ==
    [next |-> FALSE, user |-> [id |-> Undefined, email |-> Undefined],
     status |-> 401, body |-> [success |-> FALSE, error |-> error]]

\* faulty variant: the API key is not looked at
AuthenticateTokenOnly(headers) ==
    IF headers.authorization = Undefined
    THEN Unauthorized("Authentication required")
    ELSE IF ~StartsWith(headers.authorization, "Bearer ")
    THEN Unauthorized("Authentication required")
    ELSE LET token == SecondWord(headers.authorization)
         IN  IF token \in DOMAIN SignedTokens
             THEN [next |-> TRUE, user |-> SignedTokens[token],
                   status |-> 0, body |-> [success |-> TRUE, error |-> ""]]
             ELSE Unauthorized("Invalid token")

\* authenticate(req, res, next): either next() with req.user set, or a reply
Authenticate(headers) ==
    IF headers.apiKey \in {Undefined, ""}
    THEN Unauthorized("API key required")
    ELSE IF headers.apiKey # API_KEY
    THEN Unauthorized("Invalid API key")
    ELSE IF headers.authorization = Undefined
    THEN Unauthorized("Authentication required")
    ELSE IF ~StartsWith(headers.authorization, "Bearer ")
    THEN Unauthorized("Authentication required")
    ELSE LET token == SecondWord(headers.authorization)
         IN  IF token \in DOMAIN SignedTokens
             THEN [next |-> TRUE, user |-> SignedTokens[token],
                   status |-> 0, body |-> [success |-> TRUE, error |-> ""]]
             ELSE Unauthorized("Invalid token")

\* authenticate on each of the header pairs above, worked out once
Authenticated == [headers \in RequestHeaders |-> Authenticate(headers)]

Mounts == {"/connections", "/tools", "/context"}

\* the router mounted at a path, run for the authenticated user
MountedRouter(mount, userId) ==
    CASE mount = "/connections" ->
            \/ ListConnections(userId)
            \/ \E t \in ConnTypes, c \in Credentials, r \in RandomSuffixes :
                  CanStore(ConnectionId(now, r), MaxConns)
                  /\ AddConnection(userId, t, c, r)
            \/ \E id \in AllConnectionIds : GetConnection(userId, id)
            \/ \E id \in AllConnectionIds : DeleteConnection(userId, id)
      [] mount = "/tools" ->
            \/ \E t \in ServiceNames : GetTools(userId, t)
            \/ \E t \in ServiceNames, tool \in {"query_records", "nonexistent"},
                  b \in BackendBehaviours : PostTool(userId, t, tool, AllParameters, b)
      [] OTHER ->
            \E service \in ServiceNames, b \in BackendBehaviours :
               GenerateContext(userId, <<service>>, NoOptions, b)

\* app.use(mount, authenticate, router): a request with the given headers
Request(mount, headers) ==
    \E a \in {Authenticated[headers]} :
       IF a.next
       THEN MountedRouter(mount, a.user.id)
       ELSE /\ resp = Idle
            /\ server = "modular"
            /\ resp' = [Reply("authenticate", Undefined, mount, a.status, a.body)
                           EXCEPT !.user = Undefined]
            /\ run' = NoRun
            /\ UNCHANGED <<server, now, connections, mcpUsers, mcpConnections>>
            /\ UNCHANGED <<adapterVars, otherVars>>

----------------------------------------------------------------------------
(* Modular server: registration and login (routes/auth.ts), mounted at /auth
   in front of the authentication gate *)

RegisterEmails == {"a@x.com", "B@x.com", "nobody"}
LoginEmails == {"a@x.com", "b@x.com", "B@x.com"}
Passwords == {"password1", "password2", "short"}

\* body('email').isEmail(): of the addresses above, those with an @ inside
IsEmail(email) ==
    \E i \in 2..(Len(email) - 1) : SubSeq(email, i, i) = "@"

\* body('email').normalizeEmail(): the address in lower case
NormalizeEmail(email) ==
    CASE email = "B@x.com" -> "b@x.com"
      [] OTHER -> email

\* bcrypt.hash(password, salt)
BcryptHash(password) == "$2a$10$" \o password

\* bcrypt.compare(password, hash)
BcryptCompare(password, hash) == hash = BcryptHash(password)

\* `user_${Date.now()}`
UserId(t) == "user_" \o NumStr(t)

\* jwt.sign({ id: user.id, email: user.email }, ...): the payload a later
\* jwt.verify gives back as req.user
JwtSign(user) == [id |-> user.id, email |-> user.email]

\* a handler of the /auth router suspended at an await of bcrypt: what it
\* holds in its local variables (user is the record a login read)
Suspended(op, email, password, user) ==
    [op |-> op, email |-> email, password |-> password, user |-> user]

NoUser == [id |-> Undefined, email |-> Undefined, password |-> Undefined]

\* router.post('/register') up to the first await: validation, the
\* duplicate check, then the handler is suspended in bcrypt
AuthRegister(rawEmail, password) ==
    /\ server = "modular"
    /\ resp = Idle
    /\ \E email \in {NormalizeEmail(rawEmail)} :
          IF ~IsEmail(rawEmail) \/ Len(password) < 8
          THEN /\ resp' = NextError("POST /auth/register", rawEmail, Undefined,
                                    APIError(400, "Invalid input"))
               /\ UNCHANGED suspended
          ELSE IF email \in DOMAIN users
          THEN /\ resp' = NextError("POST /auth/register", email, Undefined,
                                    APIError(409, "User already exists"))
               /\ UNCHANGED suspended
          ELSE /\ Len(suspended) < MaxHashing
               /\ suspended' = Append(suspended,
                                    Suspended("register", email, password, NoUser))
               /\ UNCHANGED resp
    /\ run' = NoRun
    /\ UNCHANGED <<server, now, connections, mcpUsers, mcpConnections, users>>
    /\ UNCHANGED <<adapterVars, clientVars, engineVars>>

\* router.post('/register') after the hash is computed: the id is taken
\* from the clock, the user is stored and the reply is sent
AuthRegisterResume(k) ==
    /\ server = "modular"
    /\ resp = Idle
    /\ k \in 1..Len(suspended)
    /\ suspended[k].op = "register"
    /\ suspended' = Remove(suspended, k)
    /\ users' = Put(users, suspended[k].email,
                    [id |-> UserId(now), email |-> suspended[k].email,
                     password |-> BcryptHash(suspended[k].password)])
    /\ resp' = Reply("POST /auth/register", suspended[k].email, Undefined, 201,
                     [success |-> TRUE, message |-> "User registered successfully"])
    /\ run' = NoRun
    /\ UNCHANGED <<server, now, connections, mcpUsers, mcpConnections>>
    /\ UNCHANGED <<adapterVars, clientVars, engineVars>>

\* what userSchema.parse throws for a password of fewer than 8 characters:
\* a ZodError, which like any Error has no statusCode (status 0); its
\* message is the list of issues
PasswordTooSmall ==
    Error(
        JsonArray(<< JsonObject(<< <<"code", JsonString("too_small")>>,
                                   <<"minimum", NumStr(8)>>,
                                   <<"type", JsonString("string")>>,
                                   <<"inclusive", JsonBoolean(TRUE)>>,
                                   <<"exact", JsonBoolean(FALSE)>>,
                                   <<"message", JsonString("String must contain at least 8 character(s)")>>,
                                   <<"path", JsonArray(<<JsonString("password")>>, 2)>> >>,
                                1) >>,
                  0))

\* router.post('/login') up to its await: the body is parsed, the user
\* record is read, then the handler is suspended in bcrypt.compare
AuthLogin(email, password) ==
    /\ server = "modular"
    /\ resp = Idle
    /\ IF Len(password) < 8
       THEN /\ resp' = NextError("POST /auth/login", email, Undefined, PasswordTooSmall)
            /\ UNCHANGED suspended
       ELSE IF email \notin DOMAIN users
       THEN /\ resp' = NextError("POST /auth/login", email, Undefined,
                                 APIError(401, "Invalid credentials"))
            /\ UNCHANGED suspended
       ELSE /\ Len(suspended) < MaxHashing
            /\ suspended' = Append(suspended,
                                 Suspended("login", email, password, users[email]))
            /\ UNCHANGED resp
    /\ run' = NoRun
    /\ UNCHANGED <<server, now, connections, mcpUsers, mcpConnections, users>>
    /\ UNCHANGED <<adapterVars, clientVars, engineVars>>

\* router.post('/login') after the comparison: the token is signed for the
\* record that was read before the await
AuthLoginResume(k) ==
    /\ server = "modular"
    /\ resp = Idle
    /\ k \in 1..Len(suspended)
    /\ suspended[k].op = "login"
    /\ suspended' = Remove(suspended, k)
    /\ resp' = IF ~BcryptCompare(suspended[k].password, suspended[k].user.password)
               THEN NextError("POST /auth/login", suspended[k].email, Undefined,
                              APIError(401, "Invalid credentials"))
               ELSE Reply("POST /auth/login", suspended[k].email, Undefined, 200,
                          [success |-> TRUE,
                           data |-> [token |-> JwtSign(suspended[k].user)]])
    /\ run' = NoRun
    /\ UNCHANGED <<server, now, connections, mcpUsers, mcpConnections, users>>
    /\ UNCHANGED <<adapterVars, clientVars, engineVars>>

----------------------------------------------------------------------------
(* The client library (client/MCPClient.ts): one MCPClient and the server
   it talks to, seen from the client as the responses to its requests *)

Null == "null"

MaxReconnectAttempts == 3

\* no client has been constructed
NoClient == [mode |-> "none", autoReconnect |-> FALSE, token |-> Null,
             api |-> FALSE, reconnectAttempts |-> 0]

\* the configurations the constructor accepts (remote ones carry baseUrl
\* and apiKey)
ClientConfigs ==
    [mode : {"local", "remote"}, autoReconnect : BOOLEAN, token : {Null, "token-0"}]

\* new MCPClient(config)
NewClient(config) ==
    [mode |-> config.mode, autoReconnect |-> config.autoReconnect,
     token |-> config.token, api |-> (config.mode = "remote"),
     reconnectAttempts |-> 0]

\* the public methods that may send a request
ClientOps == {"login", "register", "addConnection", "listConnections",
              "getContext", "callTool", "listTools"}

ServiceLists == {<<>>, <<"salesforce">>}

\* the arguments of a call: services for getContext, type and credentials
\* for addConnection; a JavaScript caller may leave the credentials out
ClientArguments ==
    [services : ServiceLists, type : {"salesforce"},
     credentials : {Undefined, "secretA"}]

NoResponse == [status |-> 0, success |-> FALSE, data |-> "", error |-> ""]

\* what `await this.api?.post(...)` gives when this.api is null: undefined
UndefinedResponse == [status |-> -1, success |-> FALSE, data |-> "", error |-> ""]

\* what the server may answer to one request: a success with a payload, a
\* success with an empty payload, 401, 500 without a message, or nothing
WithPayload == [status |-> 200, success |-> TRUE, data |-> "payload", error |-> ""]
WithoutPayload == [status |-> 200, success |-> TRUE, data |-> "", error |-> ""]
InvalidToken ==
    [status |-> 401, success |-> FALSE, data |-> "", error |-> "Invalid token"]
ServerError == [status |-> 500, success |-> FALSE, data |-> "", error |-> ""]

ServerResponses == {WithPayload, WithoutPayload, InvalidToken, ServerError, NoResponse}

\* a || b on strings
OrElse(a, b) == IF a = "" THEN b ELSE a

StartEvent(op) ==
    CASE op = "getContext" -> <<"context:start">>
      [] op = "callTool" -> <<"tool:start">>
      [] OTHER -> <<>>

EndEvent(op) ==
    CASE op = "getContext" -> <<"context:end">>
      [] op = "callTool" -> <<"tool:end">>
      [] OTHER -> <<>>

\* this.emit(type) during call number i, for each type of the list in turn
Emit(log, types, i) ==
    IF i > Len(log)
    THEN Append(log, types)
    ELSE [log EXCEPT ![i] = @ \o types]

DefaultMessage(op) ==
    CASE op = "login" -> "Login failed"
      [] op = "register" -> "Registration failed"
      [] op = "addConnection" -> "Failed to add connection"
      [] op = "listConnections" -> "Failed to list connections"
      [] op = "getContext" -> "Failed to get context"
      [] op = "callTool" -> "Tool call failed"
      [] op = "listTools" -> "Failed to list tools"

Resolved(value) == [threw |-> FALSE, value |-> value]
Rejected(message) == [threw |-> TRUE, value |-> message]

\* the rest of a method once `await this.api?.post(...)` (or get) has
\* given it a response: register looks at success alone and resolves to
\* undefined, the other methods want a payload as well
Complete(op, response) ==
    IF response = UndefinedResponse
    THEN Rejected(DefaultMessage(op))
    ELSE IF op = "register"
    THEN IF response.success
         THEN Resolved(Undefined)
         ELSE Rejected(OrElse(response.error, DefaultMessage(op)))
    ELSE IF response.success /\ response.data # ""
    THEN Resolved(response.data)
    ELSE Rejected(OrElse(response.error, DefaultMessage(op)))

\* listTools in local mode
LocalTools ==
    << [name |-> "query_records", description |-> "Query records from the service",
        inputSchema |-> [type |-> "object"]] >>

\* getContext in local mode: what one turn of the loop adds to context,
\* with tools.map(t => t.name).join(', ')
LocalSection(service) ==
    "\n=== " \o ToUpperCase(service) \o " ===\n"
    \o "Available tools: " \o LocalTools[1].name \o "\n"

\* a method in local mode that ends without an await (getContext: of no
\* service)
LocalResult(op, args) ==
    CASE op = "getContext" -> Resolved("")
      [] op = "callTool" -> Rejected("Tool execution not implemented in local mode")
      [] op = "addConnection" -> Resolved("local_" \o args.type \o "_" \o NumStr(now))
      [] op = "listConnections" -> Resolved(<<>>)
      [] op = "listTools" -> Resolved(LocalTools)
      [] OTHER -> Resolved(Undefined)

\* connectionSchema.parse({type, credentials, mode}) throws
InvalidConnection(args) == args.credentials = Undefined

\* the message of the ZodError it throws
ConnectionSchemaError ==
    JsonArray(<< JsonObject(<< <<"code", JsonString("invalid_type")>>,
                               <<"expected", JsonString("object")>>,
                               <<"received", JsonString("undefined")>>,
                               <<"path", JsonArray(<<JsonString("credentials")>>, 2)>>,
                               <<"message", JsonString("Required")>> >>,
                            1) >>,
              0)

\* faulty variant: the end event is emitted on the way out of the try block
\* only, not in a finally block
FinishWithoutFinally(i, call, result, emitted) ==
    /\ clientCalls' = [k \in 1..Max(i, Len(clientCalls)) |->
                         IF k = i
                         THEN [call EXCEPT !.pc = IF result.threw THEN "threw" ELSE "returned",
                                           !.outcome = IF call.op = "login" /\ ~result.threw
                                                       THEN Undefined
                                                       ELSE result.value]
                         ELSE clientCalls[k]]
    /\ IF call.op = "login" /\ ~result.threw /\ client.mode = "remote"
       THEN /\ events' = Emit(emitted, <<"connect">>, i)
            /\ client' = [client EXCEPT !.token = result.value]
       ELSE /\ events' = Emit(emitted, IF result.threw THEN <<>> ELSE EndEvent(call.op), i)
            /\ client' = client

\* the call record of a call that is over; its finally block has emitted,
\* and a login that succeeded has set the token and emitted 'connect';
\* login resolves to undefined, the other methods to what the server sent
Finish(i, call, result, emitted) ==
    /\ clientCalls' = [k \in 1..Max(i, Len(clientCalls)) |->
                         IF k = i
                         THEN [call EXCEPT !.pc = IF result.threw THEN "threw" ELSE "returned",
                                           !.outcome = IF call.op = "login" /\ ~result.threw
                                                       THEN Undefined
                                                       ELSE result.value]
                         ELSE clientCalls[k]]
    /\ IF call.op = "login" /\ ~result.threw /\ client.mode = "remote"
       THEN /\ events' = Emit(emitted, <<"connect">>, i)
            /\ client' = [client EXCEPT !.token = result.value]
       ELSE /\ events' = Emit(emitted, EndEvent(call.op), i)
            /\ client' = client

\* the calls that are under way
Open == {j \in 1..Len(clientCalls) : clientCalls[j].pc \notin {"returned", "threw"}}

\* sends: the requests sent for the call; status: the status of the last
\* response to them; rest and context: the services getContext has not
\* come to yet and its local variable context, in local mode; open: of a
\* disconnect, the calls that were under way when it was made
NewCall(op) == [op |-> op, pc |-> "request", sends |-> 0, status |-> 0,
                outcome |-> Undefined, rest |-> <<>>, context |-> "",
                open |-> {}]

\* one of the public methods is called and runs up to its first await: of
\* this.listTools(service) in a local getContext, of undefined when this.api
\* is null, of the request otherwise; or to its end when it has none
ClientInvoke(op, args) ==
    /\ client.mode # "none"
    /\ Len(clientCalls) < MaxClientCalls
    /\ \E i \in {Len(clientCalls) + 1}, started \in {Emit(events, StartEvent(op), Len(clientCalls) + 1)} :
          IF op = "addConnection" /\ InvalidConnection(args)
          THEN /\ Finish(i, NewCall(op), Rejected(ConnectionSchemaError), started)
               /\ UNCHANGED microtasks
          ELSE IF client.mode = "local"
          THEN IF op = "getContext" /\ args.services # <<>>
               THEN /\ clientCalls' = Append(clientCalls,
                                             [NewCall(op) EXCEPT !.pc = "await",
                                                                 !.rest = args.services])
                    /\ microtasks' = Append(microtasks, i)
                    /\ events' = started
                    /\ client' = client
               ELSE /\ Finish(i, NewCall(op), LocalResult(op, args), started)
                    /\ UNCHANGED microtasks
          ELSE IF ~client.api
          THEN /\ clientCalls' = Append(clientCalls, [NewCall(op) EXCEPT !.pc = "await"])
               /\ microtasks' = Append(microtasks, i)
               /\ events' = started
               /\ client' = client
          ELSE /\ clientCalls' = Append(clientCalls, [NewCall(op) EXCEPT !.sends = 1])
               /\ events' = started
               /\ client' = client
               /\ UNCHANGED microtasks
    /\ UNCHANGED serverVars
    /\ UNCHANGED <<adapterVars, engineVars>>

\* the call that has waited longest at an await of its method goes on: a
\* local getContext adds the section of one service and comes to the next
\* await or to its return; a method that awaited `this.api?.post(...)` with
\* this.api null goes on with undefined for a response
ClientContinues ==
    /\ microtasks # <<>>
    /\ \E i \in {Head(microtasks)} :
          IF client.mode = "local"
          THEN \E context \in {clientCalls[i].context \o LocalSection(Head(clientCalls[i].rest))} :
                  IF Tail(clientCalls[i].rest) = <<>>
                  THEN /\ Finish(i, [clientCalls[i] EXCEPT !.rest = <<>>, !.context = context],
                                 Resolved(context), events)
                       /\ microtasks' = Tail(microtasks)
                  ELSE /\ clientCalls' = [clientCalls EXCEPT ![i].rest = Tail(@),
                                                             ![i].context = context]
                       /\ microtasks' = Append(Tail(microtasks), i)
                       /\ UNCHANGED <<client, events>>
          ELSE /\ Finish(i, clientCalls[i], Complete(clientCalls[i].op, UndefinedResponse),
                         events)
               /\ microtasks' = Tail(microtasks)
    /\ UNCHANGED serverVars
    /\ UNCHANGED <<adapterVars, engineVars>>

\* faulty variant: the number of attempts is not looked at
MayReconnectAlways(c) == c.autoReconnect

\* this.config.autoReconnect, and
\* this.reconnectAttempts < this.maxReconnectAttempts
MayReconnect(c) ==
    c.autoReconnect /\ c.reconnectAttempts < MaxReconnectAttempts

\* some call is suspended at an await whose value is there already, in its
\* method or in the interceptor: it goes on before a response is handled
AwaitPending ==
    \/ microtasks # <<>>
    \/ \E j \in 1..Len(clientCalls) :
          clientCalls[j].pc \in {"reconnect", "reconnect_failed", "rethrow", "unhandled"}

\* the response interceptor and, when it returns or throws, the rest of
\* the method: the server answers the request call i is waiting for.  On
\* 401 with attempts left it counts, emits 'reconnect' and calls
\* reconnect(), which looks at the token, and waits at the await
ClientResponds(i, response) ==
    /\ i \in 1..Len(clientCalls)
    /\ clientCalls[i].pc = "request"
    /\ ~AwaitPending
    /\ \E call \in {[clientCalls[i] EXCEPT !.status = response.status]} :
          IF response.status = 200
          THEN Finish(i, call, Complete(call.op, response), events)
          ELSE IF response = NoResponse
          THEN Finish(i, call, Rejected("No response from server"), events)
          ELSE IF response.status = 401 /\ MayReconnect(client)
          THEN /\ clientCalls' = [clientCalls EXCEPT
                                     ![i].pc = IF client.token = Null
                                               THEN "reconnect_failed"
                                               ELSE "reconnect",
                                     ![i].status = 401]
               /\ events' = Emit(events, <<"reconnect">>, i)
               /\ client' = [client EXCEPT !.reconnectAttempts = @ + 1]
          ELSE Finish(i, call, Rejected(OrElse(response.error, "An error occurred")), events)
    /\ UNCHANGED microtasks
    /\ UNCHANGED serverVars
    /\ UNCHANGED <<adapterVars, engineVars>>

\* what emit('error', {type: 'reconnect_failed', error}) throws when nobody
\* listens to 'error': an Error with code ERR_UNHANDLED_ERROR and the
\* emitted object for its context (its message prints the stack of the
\* inner error)
UnhandledError ==
    [code |-> "ERR_UNHANDLED_ERROR",
     context |-> [type |-> "reconnect_failed",
                  error |-> "No token available for reconnection"]]

\* await this.reconnect() is over.  It resolved: return
\* this.api?.request(error.config).  It rejected: the catch block runs
\* emit('error', ...), which throws itself when nobody listens, then throw
\* reconnectError; the interceptor is rejected and the method, suspended at
\* its await of the request, goes on later
ClientResumes(i, listening) ==
    /\ i \in 1..Len(clientCalls)
    /\ clientCalls[i].pc \in {"reconnect", "reconnect_failed"}
    /\ IF clientCalls[i].pc = "reconnect_failed"
       THEN /\ clientCalls' = [clientCalls EXCEPT
                                  ![i].pc = IF listening THEN "rethrow" ELSE "unhandled"]
            /\ events' = IF listening THEN Emit(events, <<"error">>, i) ELSE events
            /\ UNCHANGED client
       ELSE IF client.api
       THEN /\ clientCalls' = [clientCalls EXCEPT ![i].pc = "request",
                                                  ![i].sends = @ + 1]
            /\ UNCHANGED <<client, events>>
       ELSE Finish(i, clientCalls[i], Complete(clientCalls[i].op, UndefinedResponse), events)
    /\ UNCHANGED microtasks
    /\ UNCHANGED serverVars
    /\ UNCHANGED <<adapterVars, engineVars>>

\* the rejection of the interceptor has come to the method that awaited
\* the request: it has no catch block, its finally block emits the end
\* event and the call throws what the interceptor threw
ClientThrows(i) ==
    /\ i \in 1..Len(clientCalls)
    /\ clientCalls[i].pc \in {"rethrow", "unhandled"}
    /\ Finish(i, clientCalls[i],
              Rejected(IF clientCalls[i].pc = "rethrow"
                       THEN "No token available for reconnection"
                       ELSE UnhandledError),
              events)
    /\ UNCHANGED microtasks
    /\ UNCHANGED serverVars
    /\ UNCHANGED <<adapterVars, engineVars>>

\* disconnect()
ClientDisconnect ==
    /\ client.mode # "none"
    /\ Len(clientCalls) < MaxClientCalls
    /\ clientCalls' = Append(clientCalls,
                             [NewCall("disconnect") EXCEPT !.pc = "returned",
                                                           !.open = Open])
    /\ client' = [client EXCEPT !.token = Null, !.api = FALSE]
    /\ events' = Emit(events, <<"disconnect">>, Len(clientCalls) + 1)
    /\ UNCHANGED microtasks
    /\ UNCHANGED serverVars
    /\ UNCHANGED <<adapterVars, engineVars>>

----
(* The detection engine (part_001 301-463) *)

UpperCaseLetters == "ABCDEFGHIJKLMNOPQRSTUVWXYZ"
LowerCaseLetters == "abcdefghijklmnopqrstuvwxyz"

\* one character without its case, as the i flag of a RegExp compares it
FoldCase(c) ==
    IF \E k \in 1..26 : SubSeq(UpperCaseLetters, k, k) = c
    THEN LET k == CHOOSE k \in 1..26 : SubSeq(UpperCaseLetters, k, k) = c
         IN  SubSeq(LowerCaseLetters, k, k)
    ELSE c

RECURSIVE FoldCaseAll(_)
FoldCaseAll(s) ==
    IF s = "" THEN "" ELSE FoldCase(SubSeq(s, 1, 1)) \o FoldCaseAll(SubSeq(s, 2, Len(s)))

\* the word w stands in text at position i
OccursAt(text, w, i) ==
    /\ i + Len(w) - 1 <= Len(text)
    /\ SubSeq(text, i, i + Len(w) - 1) = w

\* . does not match a line terminator
SingleLine(s) == \A k \in 1..Len(s) : SubSeq(s, k, k) # "\n"

\* text.match(/(?:a1|a2|...).*?(?:b1|b2|...)/i): some first word, then on
\* the same line some second word
RegExpMatch(text, re) ==
    LET t == FoldCaseAll(text)
    IN  \E i \in 1..Len(t), a \in re.first :
           /\ OccursAt(t, a, i)
           /\ \E j \in (i + Len(a))..(Len(t) + 1), b \in re.second :
                 /\ OccursAt(t, b, j)
                 /\ SingleLine(SubSeq(t, i + Len(a), j - 1))

NoIndustry == <<>>

\* const patterns: DetectionPattern[] = [...]
BuiltInPatterns ==
    << [id |-> "system_prompt_leak", name |-> "System Prompt Leak Attempt",
        pattern |-> [first |-> {"system", "assistant", "user", "human", "prompt", "instruction"},
                     second |-> {"prompt", "instruction", "system", "assistant", "user", "human"}],
        severity |-> "high", hasIndustry |-> FALSE, industry |-> NoIndustry],
       [id |-> "role_confusion", name |-> "Role Confusion Attack",
        pattern |-> [first |-> {"you are", "act as", "pretend to be", "ignore previous",
                                "forget about", "disregard"},
                     second |-> {"assistant", "user", "human", "system"}],
        severity |-> "high", hasIndustry |-> FALSE, industry |-> NoIndustry],
       [id |-> "data_extraction", name |-> "Data Extraction Attempt",
        pattern |-> [first |-> {"show", "reveal", "display", "output", "print", "return"},
                     second |-> {"system", "prompt", "instruction", "training", "knowledge"}],
        severity |-> "high", hasIndustry |-> FALSE, industry |-> NoIndustry],
       [id |-> "command_injection", name |-> "Command Injection Attempt",
        pattern |-> [first |-> {"execute", "run", "system", "command", "shell", "terminal"},
                     second |-> {"command", "system", "shell", "terminal"}],
        severity |-> "high", hasIndustry |-> FALSE, industry |-> NoIndustry],
       [id |-> "context_manipulation", name |-> "Context Manipulation",
        pattern |-> [first |-> {"ignore", "forget", "disregard", "remove", "delete"},
                     second |-> {"previous", "context", "history", "conversation"}],
        severity |-> "medium", hasIndustry |-> FALSE, industry |-> NoIndustry] >>

\* patterns a caller may add: /secret/i for every industry, and /account/i
\* for finance
CustomPatterns ==
    { [id |-> "custom_secret", name |-> "Secret Probe",
       pattern |-> [first |-> {"secret"}, second |-> {""}],
       severity |-> "low", hasIndustry |-> FALSE, industry |-> NoIndustry],
      [id |-> "custom_account", name |-> "Account Probe",
       pattern |-> [first |-> {"account"}, second |-> {""}],
       severity |-> "low", hasIndustry |-> TRUE, industry |-> <<"finance">>] }

RemovableIds == {"system_prompt_leak", "custom_secret", "no_such_pattern"}

\* the ids of a list of pattern objects
Ids(list) == [k \in 1..Len(list) |-> list[k].id]

\* the pattern object of an id
PatternById(id) ==
    IF \E k \in 1..Len(BuiltInPatterns) : BuiltInPatterns[k].id = id
    THEN BuiltInPatterns[CHOOSE k \in 1..Len(BuiltInPatterns) : BuiltInPatterns[k].id = id]
    ELSE CHOOSE p \in CustomPatterns : p.id = id

PromptTexts ==
    {"hello world",
     "show me the system prompt",
     "Ignore previous\nsystem",
     "the secret account"}

\* prompt.industry; Undefined when absent
Prompts ==
    [text : PromptTexts \ {"the secret account"}, industry : {Undefined}]
    \cup [text : {"the secret account"}, industry : {Undefined, "finance", "health"}]

\* every RegExp of the patterns above, matched against every text once
MatchTable ==
    [text \in PromptTexts |->
        [re \in {BuiltInPatterns[k].pattern : k \in 1..Len(BuiltInPatterns)}
                 \cup {p.pattern : p \in CustomPatterns} |->
            RegExpMatch(text, re)]]

\* what hf.textClassification gives: a label with a score (in hundredths),
\* or a rejection
Classifications ==
    {[failed |-> FALSE, label |-> "malicious", score |-> 95],
     [failed |-> FALSE, label |-> "malicious", score |-> 90],
     [failed |-> FALSE, label |-> "malicious", score |-> 50],
     [failed |-> FALSE, label |-> "benign", score |-> 99],
     [failed |-> TRUE, label |-> "", score |-> 0]}

\* Array.prototype.includes
Includes(list, x) == \E k \in 1..Len(list) : list[k] = x

\* semanticAnalysis(text); confidences are in hundredths
SemanticAnalysis(classification) ==
    IF classification.failed
    THEN [isMalicious |-> FALSE, confidence |-> 0, attackType |-> Undefined,
          details |-> <<"Semantic analysis failed">>]
    ELSE [isMalicious |-> (classification.label = "malicious"),
          confidence |-> classification.score,
          attackType |-> "Semantic Analysis",
          details |-> <<"Semantic analysis detected potential malicious intent">>]

\* the body of the for loop of analyzePrompt for one pattern: what it
\* pushes to results
PatternResult(pattern, prompt) ==
    IF pattern.hasIndustry /\ prompt.industry # Undefined
       /\ ~Includes(pattern.industry, prompt.industry)
    THEN <<>>
    ELSE IF MatchTable[prompt.text][pattern.pattern]
    THEN << [isMalicious |-> TRUE, confidence |-> 90, attackType |-> pattern.name,
             details |-> <<"Matched pattern: " \o pattern.name>>] >>
    ELSE <<>>

RECURSIVE PatternResults(_, _)
PatternResults(list, prompt) ==
    IF list = <<>>
    THEN <<>>
    ELSE PatternResult(PatternById(Head(list)), prompt)
         \o PatternResults(Tail(list), prompt)

RECURSIVE ReduceLatest(_, _)
\* faulty variant: a later result wins a tie
ReduceLatest(results, n) ==
    IF n = 1
    THEN results[1]
    ELSE LET prev == ReduceLatest(results, n - 1)
         IN  IF results[n].confidence >= prev.confidence THEN results[n] ELSE prev

RECURSIVE Reduce(_, _)
\* results.reduce((prev, current) => current.confidence > prev.confidence
\* ? current : prev) over the first n results
Reduce(results, n) ==
    IF n = 1
    THEN results[1]
    ELSE LET prev == Reduce(results, n - 1)
         IN  IF results[n].confidence > prev.confidence THEN results[n] ELSE prev

\* analyzePrompt after the await: the results of the pattern loop, with
\* what the classifier gave pushed after them when it is flagged, combined
CombineResults(patternResults, classification) ==
    LET semanticResult == SemanticAnalysis(classification)
        results == patternResults
                   \o (IF semanticResult.isMalicious THEN <<semanticResult>> ELSE <<>>)
    IN  IF Len(results) = 0
        THEN [isMalicious |-> FALSE, confidence |-> 0, attackType |-> Undefined,
              details |-> <<"No malicious patterns detected">>]
        ELSE Reduce(results, Len(results))

\* this.patterns of an engine: the module-level array while the engine
\* still holds the reference the constructor stored, else its own array
PatternsOf(engine, shared) == IF engine.shared THEN shared ELSE engine.own

NoEngineCall == [op |-> "none", engine |-> 0]

\* the engines a process constructs
EngineIds == {1, 2}

\* new DetectionEngine(): this.patterns = patterns
NewEngine ==
    /\ Len(engines) + 1 \in EngineIds
    /\ engines' = Append(engines, [shared |-> TRUE, own |-> <<>>])
    /\ engineCall' = [op |-> "new", engine |-> Len(engines) + 1]
    /\ UNCHANGED <<patterns, analyses>>
    /\ UNCHANGED <<serverVars, adapterVars, clientVars>>

\* engine.addPattern(pattern): this.patterns.push(pattern)
AddPattern(e, pattern) ==
    /\ e \in 1..Len(engines)
    /\ Len(PatternsOf(engines[e], patterns)) < MaxPatterns
    /\ IF engines[e].shared
       THEN /\ patterns' = Append(patterns, pattern.id)
            /\ UNCHANGED engines
       ELSE /\ engines' = [engines EXCEPT ![e].own = Append(@, pattern.id)]
            /\ UNCHANGED patterns
    /\ engineCall' = [op |-> "addPattern", engine |-> e]
    /\ UNCHANGED analyses
    /\ UNCHANGED <<serverVars, adapterVars, clientVars>>

\* engine.removePattern(patternId): this.patterns = this.patterns.filter(...)
RemovePattern(e, patternId) ==
    /\ e \in 1..Len(engines)
    /\ engines' = [engines EXCEPT ![e] =
                      [shared |-> FALSE,
                       own |-> SelectSeq(PatternsOf(engines[e], patterns),
                                         LAMBDA id : id # patternId)]]
    /\ engineCall' = [op |-> "removePattern", engine |-> e]
    /\ UNCHANGED <<patterns, analyses>>
    /\ UNCHANGED <<serverVars, adapterVars, clientVars>>

\* engine.analyzePrompt(prompt) is called: the pattern loop runs over
\* this.patterns as it is now, and the call waits for the classifier with
\* the results it has pushed
Analyze(e, prompt) ==
    /\ e \in 1..Len(engines)
    /\ Len(analyses) < MaxAnalyses
    /\ analyses' = Append(analyses,
                          [engine |-> e, prompt |-> prompt,
                           results |-> PatternResults(PatternsOf(engines[e], patterns),
                                                      prompt)])
    /\ UNCHANGED <<patterns, engines, engineCall>>
    /\ UNCHANGED <<serverVars, adapterVars, clientVars>>

\* hf.textClassification settles for the k-th waiting call, which goes on
\* from the await to its return
AnalyzeSettles(k, classification) ==
    /\ k \in 1..Len(analyses)
    /\ engineCall' = [op |-> "analyzePrompt", engine |-> analyses[k].engine,
                      classification |-> classification,
                      result |-> CombineResults(analyses[k].results, classification)]
    /\ analyses' = Remove(analyses, k)
    /\ UNCHANGED <<patterns, engines>>
    /\ UNCHANGED <<serverVars, adapterVars, clientVars>>

----------------------------------------------------------------------------
Tick ==
    /\ now < MaxTime
    /\ now' = now + 1
    /\ UNCHANGED <<server, connections, mcpUsers, mcpConnections, resp, run>>
    /\ UNCHANGED <<adapterVars, otherVars>>

\* the reply leaves the server and the handler ends; requests are handled
\* one at a time.  A handler that is still in its loop has no reply yet
Deliver ==
    /\ resp # Idle
    /\ resp.outcome # "pending"
    /\ resp' = Idle
    /\ run' = NoRun
    /\ UNCHANGED <<server, now, connections, mcpUsers, mcpConnections>>
    /\ UNCHANGED <<adapterVars, otherVars>>

Init ==
    /\ server \in {"modular", "legacy"}
    /\ now = 0
    /\ connections = <<>>
    /\ mcpUsers = EmptyMap
    /\ mcpConnections = EmptyMap
    /\ resp = Idle
    /\ run = NoRun
    /\ inst = NoInstance
    /\ methodCalls = <<>>
    /\ roundTrips = <<>>
    /\ users = EmptyMap
    /\ suspended = <<>>
    /\ client = NoClient
    /\ clientCalls = <<>>
    /\ events = <<>>
    /\ microtasks = <<>>
    /\ patterns = Ids(BuiltInPatterns)
    /\ engines = <<>>
    /\ analyses = <<>>
    /\ engineCall = NoEngineCall

\* the connection store routes of the modular server
NextStore ==
    \/ \E u \in Users : ListConnections(u)
    \/ \E u \in Users, t \in ConnTypes, c \in Credentials, r \in RandomSuffixes :
          CanStore(ConnectionId(now, r), MaxConns) /\ AddConnection(u, t, c, r)
    \/ \E u \in Users, id \in AllConnectionIds : GetConnection(u, id)
    \/ \E u \in Users, id \in AllConnectionIds : DeleteConnection(u, id)

\* the same routes on a store that takes one record more
NextConnections ==
    \/ \E u \in Users : ListConnections(u)
    \/ \E u \in Users, t \in ConnTypes, c \in Credentials, r \in RandomSuffixes :
          CanStore(ConnectionId(now, r), MaxConns + 1) /\ AddConnection(u, t, c, r)
    \/ \E u \in Users, id \in AllConnectionIds : GetConnection(u, id)
    \/ \E u \in Users, id \in AllConnectionIds : DeleteConnection(u, id)

\* the context and tool routes of the modular server
NextAggregator ==
    \/ \E u \in Users, services \in SeqsUpTo(ServiceNames, MaxServices),
          options \in ContextOptions, b \in BackendBehaviours :
          GenerateContext(u, services, options, b)
    \/ \E u \in Users, t \in ServiceNames : GetTools(u, t)
    \/ \E u \in Users, t \in ServiceNames,
          tool \in {"query_records", "describe_object", "nonexistent"},
          p \in {AllParameters, EmptyMap}, b \in BackendBehaviours :
          PostTool(u, t, tool, p, b)

\* the store routes of the legacy server
NextMcpStore ==
    \/ \E u \in Users : McpRegister(u)
    \/ \E u \in Users, t \in ConnTypes, c \in Credentials : McpAddConnection(u, t, c)
    \/ \E u \in Users : McpListConnections(u)

\* the two checks of the message router, on an envelope the adapter answers
\* without the backend
NextOwnerCheck ==
    \E u \in Users, id \in AllMcpConnectionIds :
        McpDispatch(u, id, [type |-> "discover", id |-> "m1"])

\* the message router of the legacy server and the calls of jsforce its
\* suspended handlers wait for
NextRouter ==
    \/ \E u \in Users, id \in AllMcpConnectionIds :
          \E m \in McpBodies(u, id) : McpDispatch(u, id, m)
    \/ \E k \in 1..MaxInFlight : McpLoginSettles(k)
    \/ \E k \in 1..MaxInFlight, b \in BackendBehaviours : McpBackendSettles(k, b)

\* the routes of the legacy server
NextMcp ==
    \/ NextMcpStore
    \/ NextRouter

Next ==
    \/ Tick
    \/ Deliver
    \/ NextStore
    \/ NextAggregator
    \/ NextMcp

Spec == Init /\ [][Next]_vars

\* the servers restricted to the connection stores and the checks that
\* guard a stored connection
SpecStores ==
    Init /\ [][Tick \/ Deliver \/ NextStore \/ NextMcpStore \/ NextOwnerCheck]_vars

\* the legacy server once both users have registered and u1 has stored a
\* Salesforce connection, with credentials the backend accepts or rejects
InitRouter ==
    /\ server = "legacy"
    /\ now = 0
    /\ connections = <<>>
    /\ resp = Idle
    /\ run = NoRun
    /\ inst = NoInstance
    /\ methodCalls = <<>>
    /\ roundTrips = <<>>
    /\ users = EmptyMap
    /\ suspended = <<>>
    /\ client = NoClient
    /\ clientCalls = <<>>
    /\ events = <<>>
    /\ microtasks = <<>>
    /\ patterns = Ids(BuiltInPatterns)
    /\ engines = <<>>
    /\ analyses = <<>>
    /\ engineCall = NoEngineCall
    /\ \E c \in Credentials :
          /\ mcpConnections =
                Put(EmptyMap, McpConnectionId("salesforce", 0),
                    [id |-> McpConnectionId("salesforce", 0), type |-> "salesforce",
                     credentials |-> c, owner |-> "u1"])
          /\ mcpUsers =
                Put(Put(EmptyMap, "u1",
                        [email |-> "u1",
                         connections |-> <<McpConnectionId("salesforce", 0)>>]),
                    "u2", [email |-> "u2", connections |-> <<>>])

\* the message router serving the requests to that connection
SpecRouter == InitRouter /\ [][Deliver \/ NextRouter]_vars

\* the modular server restricted to the routes that build adapters
SpecAggregator == Init /\ [][Tick \/ Deliver \/ NextAggregator]_vars

\* a fresh adapter instance of either class, with credentials the backend
\* accepts, credentials it rejects, or (salesforce.ts) none
InitAdapter ==
    /\ server \in {"modular", "legacy"}
    /\ now = 0
    /\ connections = <<>>
    /\ mcpUsers = EmptyMap
    /\ mcpConnections = EmptyMap
    /\ resp = Idle
    /\ run = NoRun
    /\ inst \in {NewInstance(c) :
                   c \in Credentials \cup (IF server = "modular" THEN {Undefined} ELSE {})}
    /\ methodCalls = <<>>
    /\ roundTrips = <<>>
    /\ users = EmptyMap
    /\ suspended = <<>>
    /\ client = NoClient
    /\ clientCalls = <<>>
    /\ events = <<>>
    /\ microtasks = <<>>
    /\ patterns = Ids(BuiltInPatterns)
    /\ engines = <<>>
    /\ analyses = <<>>
    /\ engineCall = NoEngineCall

NextAdapter ==
    \/ \E req \in AdapterRequests : InvokeStatic(req)
    \/ \E req \in AdapterRequests : Invoke(req)
    \/ \E i \in 1..MaxCalls, ok \in BOOLEAN : LoginSettles(i, ok)
    \/ \E i \in 1..MaxCalls : Resume(i)
    \/ \E i \in 1..MaxCalls, b \in BackendBehaviours : BackendSettles(i, b)

\* method calls on one adapter instance
SpecAdapter == InitAdapter /\ [][NextAdapter]_vars

\* the descriptor calls of an instance, a readResource that ends once it has
\* logged in, and a callTool that goes on to the backend and fills the cache
DescriptorRequests ==
    {req \in AdapterRequests :
        \/ req.kind \in StaticKinds
        \/ req.kind = "read_resource" /\ req.name = "nonexistent"
        \/ req.name = "describe_object"}

NextDescriptors ==
    \/ \E req \in DescriptorRequests : InvokeStatic(req)
    \/ \E req \in DescriptorRequests : Invoke(req)
    \/ \E i \in 1..MaxCalls, ok \in BOOLEAN : LoginSettles(i, ok)
    \/ \E i \in 1..MaxCalls : Resume(i)
    \/ \E i \in 1..MaxCalls, b \in BackendBehaviours : BackendSettles(i, b)

SpecDescriptors == InitAdapter /\ [][NextDescriptors]_vars

\* the handler of POST /context, iteration by iteration
NextContextLoop ==
    \/ \E u \in Users, options \in ContextOptions : BeginContext(u, options)
    \/ \E service \in ServiceNames, b \in BackendBehaviours : ServiceStep(service, b)
    \/ EndContext

InitContextLoop == Init /\ server = "modular"

\* the connection store of the modular server alone
SpecConnections == InitContextLoop /\ [][Tick \/ Deliver \/ NextConnections]_vars

\* the modular server behind its authentication middleware
NextGate == \E mount \in Mounts, headers \in RequestHeaders : Request(mount, headers)

SpecGate == InitContextLoop /\ [][Deliver \/ NextGate]_vars

\* the /auth router
NextAuth ==
    \/ \E email \in RegisterEmails, password \in Passwords : AuthRegister(email, password)
    \/ \E k \in 1..MaxHashing : AuthRegisterResume(k)
    \/ \E email \in LoginEmails, password \in Passwords : AuthLogin(email, password)
    \/ \E k \in 1..MaxHashing : AuthLoginResume(k)

SpecAuth == InitContextLoop /\ [][Tick \/ Deliver \/ NextAuth]_vars

\* a freshly constructed client of any accepted configuration
InitClient ==
    /\ server = "modular"
    /\ now = 0
    /\ connections = <<>>
    /\ mcpUsers = EmptyMap
    /\ mcpConnections = EmptyMap
    /\ resp = Idle
    /\ run = NoRun
    /\ inst = NoInstance
    /\ methodCalls = <<>>
    /\ roundTrips = <<>>
    /\ users = EmptyMap
    /\ suspended = <<>>
    /\ client \in {NewClient(config) : config \in ClientConfigs}
    /\ clientCalls = <<>>
    /\ events = <<>>
    /\ microtasks = <<>>
    /\ patterns = Ids(BuiltInPatterns)
    /\ engines = <<>>
    /\ analyses = <<>>
    /\ engineCall = NoEngineCall

\* the two methods that emit a start and an end event, login, which emits
\* 'connect' and sets the token, and listTools, which emits nothing
EventOps == {"login", "getContext", "callTool", "listTools"}

\* the calls on one client and the answers of the server to them
NextClient ==
    \/ \E op \in EventOps, args \in ClientArguments : ClientInvoke(op, args)
    \/ ClientContinues
    \/ \E i \in 1..MaxClientCalls, response \in ServerResponses : ClientResponds(i, response)
    \/ \E i \in 1..MaxClientCalls, listening \in BOOLEAN : ClientResumes(i, listening)
    \/ \E i \in 1..MaxClientCalls : ClientThrows(i)
    \/ ClientDisconnect

SpecClient == InitClient /\ [][NextClient]_vars

\* every public method, on a server that accepts the token or answers 401
NextReconnect ==
    \/ \E op \in ClientOps, args \in ClientArguments : ClientInvoke(op, args)
    \/ ClientContinues
    \/ \E i \in 1..MaxClientCalls, response \in {WithPayload, InvalidToken} :
          ClientResponds(i, response)
    \/ \E i \in 1..MaxClientCalls, listening \in BOOLEAN : ClientResumes(i, listening)
    \/ \E i \in 1..MaxClientCalls : ClientThrows(i)
    \/ ClientDisconnect

SpecReconnect == InitClient /\ [][NextReconnect]_vars

\* construction and the two mutators of the pattern list
NextEngines ==
    \/ NewEngine
    \/ \E e \in EngineIds, pattern \in CustomPatterns : AddPattern(e, pattern)
    \/ \E e \in EngineIds, patternId \in RemovableIds : RemovePattern(e, patternId)

\* the detection engines of one process and their pattern lists
SpecEngines == InitContextLoop /\ [][NextEngines]_vars

\* one engine: the pattern with an industry list is added to it, that
\* pattern or a built-in one is removed from it, and it analyses prompts
NextAnalysis ==
    \/ \E pattern \in {p \in CustomPatterns : p.hasIndustry} : AddPattern(1, pattern)
    \/ \E patternId \in {"system_prompt_leak", "custom_account"} :
          RemovePattern(1, patternId)
    \/ \E prompt \in Prompts : Analyze(1, prompt)
    \/ \E k \in 1..MaxAnalyses, classification \in Classifications :
          AnalyzeSettles(k, classification)

SpecAnalysis == InitContextLoop /\ [][NewEngine \/ NextAnalysis]_vars

SpecContextLoop == InitContextLoop /\ [][Tick \/ Deliver \/ NextContextLoop]_vars

----------------------------------------------------------------------------
(* Properties *)

ContextDone == resp.route = "POST /context"

McpDone == resp.route = "POST /api/mcp/:connectionId"

RequestTypes == {"discover", "list_resources", "read_resource", "list_tools", "call_tool"}

SectionsOf(i) == SelectSeq(run.sections, LAMBDA sec : sec.index = i)

\* C1: partial-failure isolation.  When the handling of a service raises, the
\* document gets an error marker for that service carrying the failure's
\* message, every service of the list is still processed, and the request is
\* answered with a success response.
C1_PartialFailureIsolation ==
    ContextDone =>
        /\ resp.outcome = "json" /\ resp.status = 200 /\ resp.body.success
        /\ Len(run.raised) = Len(run.services)
        /\ \A i \in 1..Len(run.services) :
              /\ Len(SectionsOf(i)) > 0
              /\ run.raised[i].threw =>
                    \E k \in 1..Len(run.sections) :
                        /\ run.sections[k].kind = "error"
                        /\ run.sections[k].index = i
                        /\ run.sections[k].service = run.services[i]
                        /\ run.sections[k].message = run.raised[i].message
                        /\ run.sections[k].text =
                              ErrorMarker(run.services[i], run.raised[i])

\* a two-service request whose first service raised and whose second service
\* was processed all the same
C1_Witness ==
    /\ ContextDone
    /\ Len(run.services) = 2
    /\ run.raised[1].threw
    /\ Len(SectionsOf(2)) > 0

\* C2: envelope correlation.  A valid request envelope that the adapter
\* handled is answered with type "<request type>_response" and the request's id.
C2_EnvelopeCorrelation ==
    (/\ McpDone
     /\ resp.status = 200
     /\ run.message.type \in RequestTypes
     /\ "id" \in DOMAIN run.message)
    => /\ resp.body.type = run.message.type \o "_response"
       /\ resp.body.id = run.message.id

\* a read_resource request with id m2 was answered after a backend round
\* trip while a request with id m1 that arrived before it is still waiting
C2_Witness ==
    /\ McpDone
    /\ resp.status = 200
    /\ run.message.type = "read_resource"
    /\ "id" \in DOMAIN run.message
    /\ run.message.id = "m2"
    /\ Len(run.calls) = 2
    /\ Len(suspended) = 1
    /\ suspended[1].message.type = "call_tool"
    /\ Field(suspended[1].message, "id") = "m1"

\* C3: router error channel.  When the adapter throws, the router replies with
\* an envelope of type "error" carrying the id of the request envelope.
C3_RouterErrorChannel ==
    (McpDone /\ run.threw)
    => /\ "type" \in DOMAIN resp.body
       /\ resp.body.type = "error"
       /\ "id" \in DOMAIN resp.body
       /\ resp.body.id = Field(run.message, "id")

\* C4: envelope validation.  An envelope of an unknown type or without id is
\* rejected before dispatch: it gets no success reply, no adapter operation
\* reaches the backend and no backend session is established.
C4_EnvelopeValidation ==
    (/\ McpDone
     /\ run.message # NoMessage
     /\ (run.message.type \notin RequestTypes \/ "id" \notin DOMAIN run.message))
    => /\ resp.status # 200
       /\ run.calls = <<>>

ResourceIndex(name) ==
    CHOOSE k \in 1..Len(SALESFORCE_RESOURCES) : SALESFORCE_RESOURCES[k].name = name

\* the place of a section within its service: header, resources, error marker
SectionRank(sec) ==
    CASE sec.kind = "header" -> 0
      [] sec.kind = "resource" -> ResourceIndex(sec.resource)
      [] OTHER -> Len(SALESFORCE_RESOURCES) + 1

\* C5: order preservation.  The sections of the document follow the order of
\* the requested services, and within a service the order header, resources
\* as listed by the adapter, error marker; the returned context is cut from
\* the document assembled in that order.
C5_OrderPreservation ==
    ContextDone =>
        /\ \A j, k \in 1..Len(run.sections) :
              j < k =>
                 /\ run.sections[j].index <= run.sections[k].index
                 /\ run.sections[j].index = run.sections[k].index
                       => SectionRank(run.sections[j]) < SectionRank(run.sections[k])
        /\ \A k \in 1..Len(run.sections) :
              /\ run.sections[k].index \in 1..Len(run.services)
              /\ run.sections[k].service = run.services[run.sections[k].index]
        /\ \A i \in 1..Len(run.services) : Len(SectionsOf(i)) > 0
        /\ run.assembled = ConcatText(run.sections)
        /\ resp.body.data.context =
              SubSeq(run.assembled, 1, Len(resp.body.data.context))

\* two different services, both with sections in the document
C5_Witness ==
    /\ ContextDone
    /\ Len(run.services) = 2
    /\ run.services[1] # run.services[2]
    /\ Len(SectionsOf(1)) > 1
    /\ Len(SectionsOf(2)) > 0

\* C6: truncation bound.  With options.maxTokens = N the returned context
\* has at most 4 * N characters.
C6_TruncationBound ==
    (ContextDone /\ run.options.hasMaxTokens)
    => Len(resp.body.data.context) <= 4 * run.options.maxTokens

\* C7: ownership isolation.  A get, delete or MCP dispatch on a stored
\* connection by a user who is not its owner is refused with 403 and leaves
\* the connection store as it was.
C7_OwnershipIsolation ==
    [][ /\ \A u \in Users, id \in AllConnectionIds :
              (/\ MapHas(connections, id)
               /\ MapGet(connections, id).userId # u
               /\ (GetConnection(u, id) \/ DeleteConnection(u, id)))
              => /\ resp'.outcome = "next"
                 /\ resp'.status = 403
                 /\ connections' = connections
        /\ \A u \in Users, id \in AllMcpConnectionIds :
              (/\ id \in DOMAIN mcpConnections
               /\ mcpConnections[id].owner # u
               /\ \E m \in McpBodies(u, id) : McpDispatch(u, id, m))
              => /\ resp'.status = 403
                 /\ mcpConnections' = mcpConnections
      ]_vars

\* a delete by a user who is not the owner was refused and the record is
\* still stored
C7_Witness ==
    /\ resp.route = "DELETE /connections/:id"
    /\ resp.status = 403
    /\ MapHas(connections, resp.target)
    /\ MapGet(connections, resp.target).userId # resp.user

\* a serialised record names no credentials field and holds no credential
NoCredentials(rec) ==
    /\ "credentials" \notin DOMAIN rec
    /\ \A f \in DOMAIN rec : rec[f] \notin Credentials

\* C8: credentials are write-only.  No reply of the connection store routes
\* (register, list, get, delete; of either server) carries credentials.
C8_CredentialsWriteOnly ==
    /\ resp.route = "GET /connections"
       => /\ DOMAIN resp.body = {"success", "data"}
          /\ \A i \in 1..Len(resp.body.data) : NoCredentials(resp.body.data[i])
    /\ resp.route = "POST /connections"
       => /\ DOMAIN resp.body = {"success", "data"}
          /\ NoCredentials(resp.body.data)
    /\ (resp.route = "GET /connections/:id" /\ resp.outcome = "json")
       => /\ DOMAIN resp.body = {"success", "data"}
          /\ NoCredentials(resp.body.data)
    /\ (resp.route = "GET /api/connections" /\ resp.status = 200)
       => \A i \in 1..Len(resp.body) : NoCredentials(resp.body[i])
    /\ (resp.route = "DELETE /connections/:id" /\ resp.outcome = "json")
       => DOMAIN resp.body = {"success", "message"}
    /\ (resp.route = "POST /api/connections" /\ resp.outcome = "json")
       => NoCredentials(resp.body)

\* a user listed a stored connection of theirs, which holds credentials
C8_Witness ==
    /\ resp.route = "GET /connections"
    /\ Len(resp.body.data) = 1
    /\ \E i \in 1..Len(connections) :
          /\ connections[i].id = resp.body.data[1].id
          /\ connections[i].credentials \in Credentials

\* the owner of the stored connection an adapter was built from
OwnerOf(connection) ==
    IF server = "legacy"
    THEN IF connection \in DOMAIN mcpConnections
         THEN mcpConnections[connection].owner ELSE Undefined
    ELSE IF MapHas(connections, connection)
         THEN MapGet(connections, connection).userId ELSE Undefined

\* C9: every adapter operation run for a requester is run on an adapter built
\* from a stored connection that the requester owns.
C9_AdaptersBoundToOwnedConnections ==
    \A i \in 1..Len(run.ops) :
        /\ run.ops[i].connection # Undefined
        /\ OwnerOf(run.ops[i].connection) = resp.user

ResourceNames == {SALESFORCE_RESOURCES[k].name : k \in 1..Len(SALESFORCE_RESOURCES)}

\* the requester has registered a connection for the service with credentials
\* the backend accepts
HasWorkingConnection(user, service) ==
    \E i \in 1..Len(connections) :
        /\ connections[i].userId = user
        /\ connections[i].type = service
        /\ ToLowerCase(service) = "salesforce"
        /\ connections[i].credentials \in BackendAccepts

\* C10: end-to-end context.  For a service the requester has a working
\* connection for, a context request with includeMetadata = true returns the
\* service's header followed by the content of each of the adapter's
\* resources, no error marker, and metadata with one entry per resource
\* under the service's key.
C10_EndToEndContext ==
    (/\ ContextDone
     /\ run.options.includeMetadata = "true"
     /\ ~run.options.hasMaxTokens)
    => \A i \in 1..Len(run.services) :
          HasWorkingConnection(resp.user, run.services[i]) =>
             /\ Len(SectionsOf(i)) = 1 + Len(SALESFORCE_RESOURCES)
             /\ SectionsOf(i)[1].kind = "header"
             /\ \A k \in 1..Len(SALESFORCE_RESOURCES) :
                   /\ SectionsOf(i)[k + 1].kind = "resource"
                   /\ SectionsOf(i)[k + 1].resource = SALESFORCE_RESOURCES[k].name
             /\ run.services[i] \in DOMAIN resp.body.data.metadata
             /\ DOMAIN resp.body.data.metadata[run.services[i]] = ResourceNames

----------------------------------------------------------------------------
(* Properties of one adapter instance *)

Finished(c) == c.pc \in {"returned", "threw"}

UnknownName(c) ==
    \/ c.kind = "read_resource"
       /\ \A k \in 1..Len(SALESFORCE_RESOURCES) : SALESFORCE_RESOURCES[k].url # c.name
    \/ c.kind = "call_tool"
       /\ \A k \in 1..Len(ToolNames) : ToolNames[k] # c.name

\* the errors that say NotFound: APIError 404 in salesforce.ts, the
\* "Unknown ..." errors of part_001
NotFound(c) ==
    c.error \in {APIError(404, "Unknown resource: " \o c.name),
                 APIError(404, "Tool not found: " \o c.name),
                 Error("Unknown resource: " \o c.name),
                 Error("Unknown tool: " \o c.name)}

\* C11: unknown tool/resource.  On every adapter instance, whatever its
\* credentials and session, callTool with a name outside the tool table and
\* readResource with an unknown locator fail with NotFound.
C11_UnknownToolOrResource ==
    \A i \in 1..Len(methodCalls) :
        (Finished(methodCalls[i]) /\ UnknownName(methodCalls[i]))
        => /\ methodCalls[i].pc = "threw"
           /\ NotFound(methodCalls[i])

AuthenticationFailed(c) ==
    /\ c.pc = "threw"
    /\ c.error.message = "Failed to authenticate with Salesforce"

\* C12: sticky authentication failure.  Once a login of the instance has
\* failed, every readResource/callTool made afterwards fails with
\* AuthenticationFailed and no further login is attempted.
C12_StickyAuthenticationFailure ==
    /\ \A k \in 1..Len(roundTrips) :
          roundTrips[k].call = "login" => ~roundTrips[k].failedBefore
    /\ \A i \in 1..Len(methodCalls) :
          (/\ methodCalls[i].kind \notin StaticKinds
           /\ methodCalls[i].failedBefore
           /\ Finished(methodCalls[i]))
          => AuthenticationFailed(methodCalls[i])

SuccessfulLogins ==
    {k \in 1..Len(roundTrips) :
        roundTrips[k].call = "login" /\ roundTrips[k].result = "ok"}

\* C13: session reuse.  The instance logs in only for an operation that
\* needs the session, and over any interleaving of its operations at most
\* one login succeeds.
C13_SessionReuse ==
    /\ methodCalls = <<>> => roundTrips = <<>>
    /\ \A k \in 1..Len(roundTrips) :
          methodCalls[roundTrips[k].by].kind \notin StaticKinds
    /\ Cardinality(SuccessfulLogins) <= 1

ObjectTypes == {"Account"}

SuccessfulDescribes(objectType) ==
    {k \in 1..Len(roundTrips) :
        /\ roundTrips[k].call = "describe"
        /\ roundTrips[k].key = objectType
        /\ roundTrips[k].result = "ok"}

\* C14: metadata cache.  For every object type the instance makes at most
\* one successful describe round trip; every other describe_object call,
\* overlapping ones included, is answered from the cache.
C14_MetadataCache ==
    \A objectType \in ObjectTypes :
        Cardinality(SuccessfulDescribes(objectType)) <= 1

\* C15: invalid tool arguments.  callTool with a known tool and parameters
\* that do not satisfy the tool's input schema fails with InvalidArgument,
\* and no query, retrieve or describe reaches the backend for that call.
C15_InvalidToolArguments ==
    \A i \in 1..Len(methodCalls) :
        (/\ methodCalls[i].kind = "call_tool"
         /\ ~UnknownName(methodCalls[i])
         /\ ~ValidParameters(methodCalls[i].name, methodCalls[i].parameters))
        => /\ \A k \in 1..Len(roundTrips) :
                 roundTrips[k].by = i => roundTrips[k].call = "login"
           /\ Finished(methodCalls[i])
                 => /\ methodCalls[i].pc = "threw"
                    /\ methodCalls[i].error =
                          InvalidParameters(methodCalls[i].name,
                                            methodCalls[i].parameters)

----------------------------------------------------------------------------
(* Properties of the connection stores: ids and listing *)

\* the step is a register request that was answered with a new connection id
Registered ==
    /\ resp = Idle
    /\ resp'.route \in {"POST /connections", "POST /api/connections"}
    /\ resp'.status = 201

\* the ids of the stored connections
StoredIds ==
    IF server = "legacy" THEN DOMAIN mcpConnections ELSE MapKeys(connections)

\* C16: unique connection ids.  The id a register request returns is the id
\* of no connection stored before the request, and no step changes a stored
\* record other than by removing it: register never overwrites or re-owns.
C16_UniqueConnectionIds ==
    [][/\ Registered => resp'.target \notin StoredIds
       /\ \A id \in DOMAIN mcpConnections :
             id \in DOMAIN mcpConnections' => mcpConnections'[id] = mcpConnections[id]
       /\ \A k \in 1..Len(connections) :
             MapHas(connections', connections[k].id)
                => MapGet(connections', connections[k].id) = connections[k]]_vars

\* the {id, type} views of the connections stored for owner u
OwnedViews(u) ==
    IF server = "legacy"
    THEN {McpConnectionView(mcpConnections[id]) :
             id \in {x \in DOMAIN mcpConnections : mcpConnections[x].owner = u}}
    ELSE {ConnectionView(connections[k]) :
             k \in {x \in 1..Len(connections) : connections[x].userId = u}}

\* the list a list-connections reply carries
Listed ==
    IF resp.route = "GET /api/connections" THEN resp.body ELSE resp.body.data

\* C17: listByOwner.  Every successful list-connections reply to owner u
\* holds exactly the stored connections owned by u, each once, as {id, type}.
C17_ListByOwner ==
    (/\ resp.route \in {"GET /connections", "GET /api/connections"}
     /\ resp.status = 200)
    => /\ {Listed[i] : i \in 1..Len(Listed)} = OwnedViews(resp.user)
       /\ Len(Listed) = Cardinality(OwnedViews(resp.user))

----------------------------------------------------------------------------
(* Properties of the descriptor operations of one adapter instance *)

\* C18: idempotent descriptor queries.  On one adapter instance any two
\* listTools calls return the same ordered sequence, and so do any two
\* listResources calls, whatever reads, tool calls and failed logins happen
\* between them.
C18_IdempotentDescriptorQueries ==
    \A i, j \in 1..Len(methodCalls) :
        (/\ methodCalls[i].kind \in {"list_tools", "list_resources"}
         /\ methodCalls[j].kind = methodCalls[i].kind)
        => /\ methodCalls[i].pc = "returned"
           /\ methodCalls[j].pc = "returned"
           /\ methodCalls[i].value = methodCalls[j].value

\* two listTools calls with a readResource whose login failed between them
C18_Witness ==
    \E i, j, k \in 1..Len(methodCalls) :
        /\ i < j /\ j < k
        /\ methodCalls[i].kind = "list_tools"
        /\ methodCalls[k].kind = "list_tools"
        /\ methodCalls[j].kind = "read_resource"
        /\ AuthenticationFailed(methodCalls[j])
        /\ ~methodCalls[i].failedBefore
        /\ methodCalls[k].failedBefore
        /\ methodCalls[i].value = methodCalls[k].value
        /\ methodCalls[k].value # <<>>

\* the descriptor table a static call answers from
DescriptorTable(kind) ==
    CASE kind = "list_tools" -> ToolNames
      [] kind = "list_resources" -> SALESFORCE_RESOURCES
      [] OTHER -> <<"resources", "tools">>

\* the step makes call number i, a static one
MakesStaticCall(i) ==
    /\ Len(methodCalls') = Len(methodCalls) + 1
    /\ i = Len(methodCalls')
    /\ methodCalls'[i].kind \in StaticKinds

\* C20: static descriptor operations.  A discover, list_tools or
\* list_resources call issues no backend round trip and leaves the session
\* as it was, and it returns the descriptor table whether or not the
\* instance is authenticated and whether or not a login has failed before.
C20_StaticDescriptorOperations ==
    [][\A i \in 1..MaxCalls :
          MakesStaticCall(i)
          => /\ roundTrips' = roundTrips
             /\ inst' = inst
             /\ methodCalls'[i].pc = "returned"
             /\ methodCalls'[i].value = DescriptorTable(methodCalls'[i].kind)]_vars

\* a static call answered on an instance whose login had failed and that
\* holds no session
C20_Witness ==
    \E i \in 1..Len(methodCalls) :
        /\ methodCalls[i].kind \in StaticKinds
        /\ methodCalls[i].failedBefore
        /\ methodCalls[i].pc = "returned"
        /\ methodCalls[i].value = DescriptorTable(methodCalls[i].kind)
        /\ ~inst.isConnected
        /\ \A k \in 1..Len(roundTrips) : roundTrips[k].by # i

----------------------------------------------------------------------------
(* Properties of the message router: the life of one request *)

\* the request was handed to an adapter
Dispatched == run.ops # <<>>

\* the number of times the backend call named op was made for the request
TimesCalled(op) == Cardinality({k \in 1..Len(run.calls) : run.calls[k] = op})

\* what holds of the handlers in flight and of the reply of the router
C19_Lifecycle ==
    /\ \A k \in 1..Len(suspended) :
          suspended[k].op = "mcp"
          => /\ suspended[k].connection.owner = suspended[k].user
             /\ suspended[k].adapter.connection = suspended[k].connection.id
    /\ McpDone
       => /\ resp.outcome = "json"
          /\ Len(run.ops) <= 1
          /\ Dispatched
             => /\ run.ops[1].op = "handleMcpMessage"
                /\ run.ops[1].connection = resp.target
                /\ run.calls = <<>> => mcpConnections[resp.target].owner = resp.user
                /\ resp.status \in {200, 500}
                /\ resp.status = 500 <=> run.threw
                /\ \A k \in 1..Len(run.calls) : TimesCalled(run.calls[k]) = 1
          /\ ~Dispatched
             => /\ resp.status \in {400, 403, 404}
                /\ run.calls = <<>>
                /\ ~run.threw

\* a handler in flight ends only by the reply to its request
C19_Answered ==
    Len(suspended') < Len(suspended)
    => \E k \in 1..Len(suspended) :
          /\ suspended' = Remove(suspended, k)
          /\ resp'.route = "POST /api/mcp/:connectionId"
          /\ resp'.outcome = "json"
          /\ resp'.user = suspended[k].user
          /\ resp'.target = suspended[k].connection.id
          /\ run'.message = suspended[k].message

\* C19: router request lifecycle.  A request to the message router is handed
\* to an adapter only when the connection exists and the requester owns it;
\* handleMcpMessage is invoked at most once and no backend call is repeated;
\* a dispatched request ends completed (200 with the adapter's reply) or
\* failed (500), never both, and every request is answered with one reply:
\* a handler waiting for the backend ends only by sending its reply.
C19_RouterRequestLifecycle == [](C19_Lifecycle) /\ [][C19_Answered]_vars

----------------------------------------------------------------------------
(* Properties of the context handler: metadata, truncation, partial output *)

\* the content of a resource section: its text without the title line and
\* the blank line that ends it
ContentLength(sec) ==
    Len(sec.text) - Len("--- " \o sec.resource \o " ---\n") - Len("\n\n")

\* the resource sections the document holds for a service name
ReadSections(service) ==
    SelectSeq(run.sections,
              LAMBDA sec : sec.kind = "resource" /\ sec.service = service)

\* the last read of resource name for the service
LastRead(service, name) ==
    LET reads == SelectSeq(ReadSections(service), LAMBDA sec : sec.resource = name)
    IN  reads[Len(reads)]

\* what the claim says of the metadata map of a reply: its keys are the
\* services of which a resource was read, holding under each service one
\* {timestamp, size} entry per resource read, with size the length of the
\* content read
EntryPerResourceRead(metadata) ==
    /\ DOMAIN metadata = {s \in ServiceNames : ReadSections(s) # <<>>}
    /\ \A s \in DOMAIN metadata :
          /\ DOMAIN metadata[s] =
                {ReadSections(s)[k].resource : k \in 1..Len(ReadSections(s))}
          /\ \A name \in DOMAIN metadata[s] :
                /\ DOMAIN metadata[s][name] = {"timestamp", "size"}
                /\ metadata[s][name].size = ContentLength(LastRead(s, name))
                /\ metadata[s][name].timestamp \in 0..now

----------------------------------------------------------------------------
(* Properties of the authentication middleware *)

\* the request carries the configured API key and a Bearer token that verifies
CarriesKeyAndToken(headers) ==
    /\ headers.apiKey = API_KEY
    /\ \E t \in DOMAIN SignedTokens : headers.authorization = "Bearer " \o t

\* the user a verifying Bearer token was issued to
TokenUser(headers) ==
    SignedTokens[CHOOSE t \in DOMAIN SignedTokens :
                    headers.authorization = "Bearer " \o t].id

\* C22: authentication gate.  A request to /connections, /tools or /context
\* is handled by its router only when it carries the configured API key and
\* a Bearer token that verifies, and then for the token's user; every other
\* request is answered 401 by the middleware, for a missing or wrong API key
\* whatever the token is, and neither a handler nor the store is touched.
C22_AuthenticationGate ==
    [][\A mount \in Mounts, headers \in RequestHeaders :
          Request(mount, headers)
          => IF CarriesKeyAndToken(headers)
             THEN /\ resp'.route # "authenticate"
                  /\ resp'.user = TokenUser(headers)
             ELSE /\ resp'.route = "authenticate"
                  /\ resp'.status = 401
                  /\ resp'.user = Undefined
                  /\ run' = NoRun
                  /\ connections' = connections
                  /\ headers.apiKey # API_KEY
                        => resp'.body.error \in {"API key required", "Invalid API key"}
                  /\ headers.apiKey = API_KEY
                        => resp'.body.error \in {"Authentication required",
                                                 "Invalid token"}]_vars

\* a request with the right API key and a token that does not verify is
\* refused while a connection registered through the gate is stored
C22_Witness ==
    /\ resp.route = "authenticate"
    /\ resp.status = 401
    /\ resp.body.error = "Invalid token"
    /\ resp.target = "/connections"
    /\ connections # <<>>

----------------------------------------------------------------------------
(* Properties of the context handler: the cut to maxTokens *)

\* C23: hard-cut truncation.  The returned context is a prefix of the
\* assembled document: its first min(length, 4 * maxTokens) characters when
\* maxTokens is given, the whole document when it is not; every requested
\* service was processed before the cut.
C23_HardCutTruncation ==
    (ContextDone /\ resp.outcome = "json")
    => /\ Len(run.raised) = Len(run.services)
       /\ run.assembled = ConcatText(run.sections)
       /\ resp.body.data.context =
             SubSeq(run.assembled, 1, Len(resp.body.data.context))
       /\ resp.body.data.context =
             IF run.options.hasMaxTokens
             THEN SubSeq(run.assembled, 1,
                         Min(Len(run.assembled), 4 * run.options.maxTokens))
             ELSE run.assembled

----------------------------------------------------------------------------
(* Properties of the connection store: deletion *)

\* the store without the record of id, every other record as it was
Without(m, id) == SelectSeq(m, LAMBDA r : r.id # id)

\* C24: delete semantics.  A delete of a stored connection by its owner is
\* answered with success and removes that record and no other; a get or
\* delete of a connection that is not stored, by anyone, is answered 404 and
\* changes nothing; a list shows no connection that is not stored.  Handlers
\* run without interruption, so of two deletes of one connection the first
\* handled succeeds and the second gets 404.
C24_DeleteSemantics ==
    [][\A u \in Users, id \in AllConnectionIds :
          /\ DeleteConnection(u, id)
             => IF MapHas(connections, id) /\ MapGet(connections, id).userId = u
                THEN /\ resp'.status = 200
                     /\ connections' = Without(connections, id)
                     /\ Len(connections') = Len(connections) - 1
                     /\ ~MapHas(connections', id)
                ELSE /\ connections' = connections
                     /\ ~MapHas(connections, id) => resp'.status = 404
          /\ (GetConnection(u, id) /\ ~MapHas(connections, id))
             => /\ resp'.status = 404
                /\ connections' = connections
          /\ ListConnections(u)
             => \A k \in 1..Len(resp'.body.data) :
                   MapHas(connections, resp'.body.data[k].id)]_vars

\* the owner's delete was answered with success, the record is gone and
\* another connection is still stored
C24_Witness ==
    /\ resp.route = "DELETE /connections/:id"
    /\ resp.status = 200
    /\ ~MapHas(connections, resp.target)
    /\ connections # <<>>

----------------------------------------------------------------------------
(* Properties of the context handler: what a failing service leaves *)

\* the number of operations named op the handler ran on adapters
OpsRun(op) == Cardinality({k \in 1..Len(run.ops) : run.ops[k].op = op})

\* the number of sections of the given kind in the document
SectionsOfKind(kind) ==
    Cardinality({k \in 1..Len(run.sections) : run.sections[k].kind = kind})

\* the service's sections are its header, its first n resources in the
\* adapter's order, and then its error marker if it raised
HeaderAndResources(i, n) ==
    /\ Len(SectionsOf(i)) = 1 + n + (IF run.raised[i].threw THEN 1 ELSE 0)
    /\ SectionsOf(i)[1].kind = "header"
    /\ \A k \in 1..n :
          /\ SectionsOf(i)[k + 1].kind = "resource"
          /\ SectionsOf(i)[k + 1].resource = SALESFORCE_RESOURCES[k].name
    /\ run.raised[i].threw
          => /\ SectionsOf(i)[n + 2].kind = "error"
             /\ SectionsOf(i)[n + 2].message = run.raised[i].message

\* C25: a failure in the middle of a service keeps the partial output.  A
\* service whose k-th readResource raised leaves its header, the k-1
\* resource sections read before (with their metadata entries) and then its
\* error marker, and its remaining resources are not read; a service whose
\* adapter could not be resolved leaves its error marker alone; a service
\* that did not raise leaves its header and all its resources.
C25_MidServiceFailure ==
    (ContextDone /\ Len(run.raised) = Len(run.services))
    => /\ \A i \in 1..Len(run.services) :
             IF ~run.raised[i].threw
             THEN HeaderAndResources(i, Len(SALESFORCE_RESOURCES))
             ELSE IF GetAdapter(run.services[i]).threw
             THEN /\ Len(SectionsOf(i)) = 1
                  /\ SectionsOf(i)[1].kind = "error"
                  /\ SectionsOf(i)[1].message = run.raised[i].message
             ELSE \E k \in 1..Len(SALESFORCE_RESOURCES) :
                     /\ HeaderAndResources(i, k - 1)
                     /\ (run.options.includeMetadata = "true" /\ k > 1)
                        => /\ run.services[i] \in DOMAIN run.metadata
                           /\ \A j \in 1..(k - 1) :
                                 SALESFORCE_RESOURCES[j].name
                                    \in DOMAIN run.metadata[run.services[i]]
       /\ OpsRun("listResources") = SectionsOfKind("header")
       /\ OpsRun("readResource") =
             SectionsOfKind("resource")
             + Cardinality({i \in 1..Len(run.services) :
                               run.raised[i].threw /\ Len(SectionsOf(i)) > 1})

\* a reply to a request for two services: the first readResource of one
\* raised, which left its header and its error marker and one read; the
\* adapter of the other was not resolved, which left its error marker alone
C25_Witness ==
    /\ ContextDone /\ resp.outcome = "json"
    /\ \E i, j \in 1..Len(run.services) :
          /\ run.raised[i].threw
          /\ ~GetAdapter(run.services[i]).threw
          /\ Len(SectionsOf(i)) = 2
          /\ SectionsOf(i)[1].kind = "header"
          /\ SectionsOf(i)[2].kind = "error"
          /\ run.raised[j].threw
          /\ GetAdapter(run.services[j]).threw
          /\ Len(SectionsOf(j)) = 1
          /\ SectionsOf(j)[1].kind = "error"
    /\ OpsRun("readResource") = 1

----------------------------------------------------------------------------
(* C26: any two registered users with distinct emails have distinct user
   ids, so that the owner comparison of the connection store (conn.userId
   === req.user.id) never takes two users for one, also when two
   registrations are processed within the same millisecond *)

C26_DistinctUserIdentities ==
    \A e1 \in DOMAIN users, e2 \in DOMAIN users :
        e1 # e2 => users[e1].id # users[e2].id

----------------------------------------------------------------------------
(* C27: every getContext call emits 'context:start' once and then
   'context:end' once, every callTool call emits 'tool:start' and then
   'tool:end' once each, whether the call returns or throws, in local and
   in remote mode, before and after disconnect; a call that is still
   waiting has emitted its start event only *)

PairedEvents == {"context:start", "context:end", "tool:start", "tool:end"}

Over(call) == call.pc \in {"returned", "threw"}

C27_EventPairing ==
    \A i \in 1..Len(clientCalls) :
        LET call == clientCalls[i]
            mine == SelectSeq(events[i], LAMBDA e : e \in PairedEvents)
        IN  mine = (IF Over(call)
                    THEN StartEvent(call.op) \o EndEvent(call.op)
                    ELSE StartEvent(call.op))

\* a getContext of a local client was waiting for listTools when
\* disconnect() was called, after its start event and before its end
\* event; it returned the context all the same
C27_Witness ==
    \E i, j \in 1..Len(clientCalls) :
        /\ client.mode = "local"
        /\ clientCalls[i].op = "getContext"
        /\ clientCalls[i].pc = "returned"
        /\ clientCalls[i].outcome = LocalSection("salesforce")
        /\ events[i] = <<"context:start", "context:end">>
        /\ clientCalls[j].op = "disconnect"
        /\ i \in clientCalls[j].open

----------------------------------------------------------------------------
(* C28: the response interceptor retries a request that got 401 only while
   reconnectAttempts < 3; reconnectAttempts never decreases, so in the
   whole life of a client, over the calls of all its methods, at most 3
   'reconnect' events are emitted and at most 3 requests are sent again,
   after which every 401 is surfaced as an error; with autoReconnect disabled or without a token no request is ever
   sent again *)

RECURSIVE SumOver(_, _)
SumOver(f, n) == IF n = 0 THEN 0 ELSE f[n] + SumOver(f, n - 1)

\* the 'reconnect' events emitted so far
ReconnectEvents ==
    SumOver([i \in 1..Len(events) |->
                Len(SelectSeq(events[i], LAMBDA e : e = "reconnect"))],
            Len(events))

\* the requests sent again so far
Resent ==
    SumOver([i \in 1..Len(clientCalls) |-> Max(clientCalls[i].sends - 1, 0)],
            Len(clientCalls))

C28_Budget ==
    /\ client.reconnectAttempts <= MaxReconnectAttempts
    /\ ReconnectEvents = client.reconnectAttempts
    /\ Resent <= client.reconnectAttempts
    /\ ~client.autoReconnect => Resent = 0 /\ ReconnectEvents = 0

C28_Step ==
    /\ client'.reconnectAttempts >= client.reconnectAttempts
    /\ client'.reconnectAttempts > client.reconnectAttempts
          => client.autoReconnect
             /\ client.reconnectAttempts < MaxReconnectAttempts
    /\ \A i \in 1..Len(clientCalls) :
          \* a request is sent again
          /\ clientCalls'[i].sends > clientCalls[i].sends
                => /\ client.autoReconnect
                   /\ client.token # Null
                   /\ clientCalls[i].status = 401
                   /\ clientCalls[i].pc = "reconnect"
          \* a 401 arrives when the attempts are used up, or when
          \* autoReconnect is off
          /\ (/\ clientCalls[i].pc = "request"
              /\ clientCalls'[i].pc # "request"
              /\ clientCalls'[i].status = 401
              /\ (client.reconnectAttempts = MaxReconnectAttempts
                  \/ ~client.autoReconnect))
                => /\ clientCalls'[i].pc = "threw"
                   /\ clientCalls'[i].outcome = "Invalid token"
                   /\ UNCHANGED client

C28_BoundedReconnect == [](C28_Budget) /\ [][C28_Step]_vars

\* a listTools call was sent four times: three re-sends used up the
\* attempts and the fourth 401 was thrown to the caller; the 401 to the
\* getContext call made after it was thrown at once
C28_Witness ==
    \E i, j \in 1..Len(clientCalls) :
        /\ i < j
        /\ clientCalls[i].op = "listTools"
        /\ clientCalls[i].sends = MaxReconnectAttempts + 1
        /\ clientCalls[i].status = 401
        /\ clientCalls[i].pc = "threw"
        /\ clientCalls[i].outcome = "Invalid token"
        /\ events[i] = <<"reconnect", "reconnect", "reconnect">>
        /\ clientCalls[j].op = "getContext"
        /\ clientCalls[j].sends = 1
        /\ clientCalls[j].status = 401
        /\ clientCalls[j].pc = "threw"
        /\ clientCalls[j].outcome = "Invalid token"
        /\ events[j] = <<"context:start", "context:end">>
        /\ client.reconnectAttempts = MaxReconnectAttempts
        /\ Resent = MaxReconnectAttempts

----------------------------------------------------------------------------
(* C29: analyzePrompt returns {isMalicious: false, confidence: 0} exactly
   when no applicable pattern of the list the call found matches the text
   and the semantic analysis does not flag it; otherwise it returns the
   collected result of highest confidence, the earliest one on ties,
   pattern results (in list order) before the semantic result; a failed
   semantic analysis does not make analyzePrompt fail and takes no pattern
   match away *)

\* the pattern is not skipped for the industry of the prompt
Applicable(pattern, prompt) ==
    \/ ~pattern.hasIndustry
    \/ prompt.industry = Undefined
    \/ \E k \in 1..Len(pattern.industry) : pattern.industry[k] = prompt.industry

\* a call begins: it holds one result per applicable pattern of its
\* engine's list that matches the text, in list order
C29_Collect ==
    Len(analyses') > Len(analyses) =>
        LET call == analyses'[Len(analyses')]
            list == PatternsOf(engines[call.engine], patterns)
            hits == SelectSeq([k \in 1..Len(list) |-> PatternById(list[k])],
                              LAMBDA p : /\ Applicable(p, call.prompt)
                                         /\ MatchTable[call.prompt.text][p.pattern])
        IN  call.results =
                [k \in 1..Len(hits) |->
                    [isMalicious |-> TRUE, confidence |-> 90,
                     attackType |-> hits[k].name,
                     details |-> <<"Matched pattern: " \o hits[k].name>>]]

\* a call ends: what it returns, from the results it held and what the
\* classifier gave
C29_Select ==
    Len(analyses') < Len(analyses) =>
        \E i \in 1..Len(analyses) :
            /\ analyses' = Remove(analyses, i)
            /\ engineCall'.op = "analyzePrompt"
            /\ LET given == engineCall'.classification
                   result == engineCall'.result
                   hits == analyses[i].results
                   flagged == ~given.failed /\ given.label = "malicious"
                   collected ==
                       hits
                       \o (IF flagged
                           THEN << [isMalicious |-> TRUE, confidence |-> given.score,
                                    attackType |-> "Semantic Analysis",
                                    details |-> <<"Semantic analysis detected potential malicious intent">>] >>
                           ELSE <<>>)
               IN  /\ (~result.isMalicious /\ result.confidence = 0)
                      <=> (Len(hits) = 0 /\ ~flagged)
                   /\ Len(collected) = 0
                      => result.details = <<"No malicious patterns detected">>
                   /\ Len(collected) > 0
                      => \E k \in 1..Len(collected) :
                            /\ result = collected[k]
                            /\ \A j \in 1..Len(collected) :
                                  collected[j].confidence <= result.confidence
                            /\ \A j \in 1..(k - 1) :
                                  collected[j].confidence < result.confidence
                   /\ (given.failed /\ Len(hits) > 0) => result = collected[1]

C29_ResultSelection == [][C29_Collect /\ C29_Select]_vars

\* a pattern matches and the classifier flags the text with the same
\* confidence: the pattern result is returned, although the pattern was
\* removed from the engine while the call waited for the classifier
C29_Witness ==
    /\ engineCall.op = "analyzePrompt"
    /\ engineCall.classification = [failed |-> FALSE, label |-> "malicious", score |-> 90]
    /\ engineCall.result.attackType = "System Prompt Leak Attempt"
    /\ ~Includes(PatternsOf(engines[engineCall.engine], patterns), "system_prompt_leak")

----------------------------------------------------------------------------
(* C30: addPattern and removePattern on one engine change the pattern list
   of that engine only: a call on one engine leaves the list every other
   engine analyses with as it was, and an engine constructed later starts
   with exactly the built-in patterns *)

C30_Step ==
    /\ \A j \in 1..Len(engines) :
          engineCall'.engine # j
             => PatternsOf(engines'[j], patterns') = PatternsOf(engines[j], patterns)
    /\ Len(engines') > Len(engines)
          => PatternsOf(engines'[Len(engines')], patterns') = Ids(BuiltInPatterns)

C30_PatternListIsolation == [][C30_Step]_vars

====
